---- MODULE Spec2Model ----
(***************************************************************************)
(* A model of the appimg installation pipeline: the installed-apps ledger  *)
(* (src/src/appimg/installed.py), the AppImage descriptor parser           *)
(* (src/src/appimg/appimage.py) and the installer                          *)
(* (src/src/appimg/installer.py).                                          *)
(*                                                                         *)
(* Strings on which the code computes (names, paths, dates, descriptor     *)
(* values) are sequences of one-character strings, so that str.lower(),    *)
(* string comparison, Path.name and str.split() are computed and not       *)
(* assumed.  Python values carry their type in the field t, JSON document  *)
(* nodes carry theirs in the field j; json.dumps and json.loads convert    *)
(* between the two.                                                        *)
(***************************************************************************)
EXTENDS Integers, Sequences, FiniteSets, TLC

VARIABLES
    registry_file,  \* ~/.config/appimg/installed.json: absent, or its text
    mgr,            \* the InstalledAppsManager instances: state and self.apps
    last,           \* the last ledger call: operation, instance, argument, result
    lastMut,        \* the last add / remove call, with self.apps before and after
    nops,           \* number of add / remove calls made so far
    parsed,         \* the AppImageParser.parse() call under way: input and outcome
    fs,             \* the installer's part of the filesystem
    inst,           \* the AppImageInstaller instances and the install each runs
    now,            \* the wall clock read by datetime.now()
    ninstalls,      \* number of install() calls started so far
    window,         \* the MainWindow: current_appimage and current_info
    tmp,            \* the temporary directories made by mkdtemp: how many, which exist
    handler         \* the desktop integration of appimg itself: the default handler
                    \* of AppImage files, the backup file, the appimg.desktop entry

vars == <<registry_file, mgr, last, lastMut, nops, parsed, fs, inst, now, ninstalls,
          window, tmp, handler>>

ledgerVars == <<registry_file, mgr, last, lastMut, nops>>
parseVars == <<parsed>>
installVars == <<fs, inst, now, ninstalls>>
callerVars == <<window, tmp, handler>>

(***************************************************************************)
(* Bounds of the model.                                                    *)
(***************************************************************************)
MaxOps == 2
MaxQueryApps == 3
MaxInstalls == 2
MaxCategoryLen == 4
MaxNameLen == 2

(***************************************************************************)
(* Characters and strings.                                                 *)
(***************************************************************************)
\* The characters the model uses, in code point order.
CharOrder == <<" ", "-", ".", "/", "0", "1", "2", "3", "4", "5", "6", "7", "8", "9",
               ":", ";", "A", "B", "C", "E", "N", "S", "a", "b", "c", "e", "n", "s", "x", "y">>

Ord(c) == CHOOSE i \in 1..Len(CharOrder) : CharOrder[i] = c

UpperCase == <<"A", "B", "C", "D", "E", "I", "M", "N", "O", "P", "S", "T", "U", "X">>
LowerCase == <<"a", "b", "c", "d", "e", "i", "m", "n", "o", "p", "s", "t", "u", "x">>

\* str.lower() on one character
LowerChar(c) ==
    IF \E i \in 1..Len(UpperCase) : UpperCase[i] = c
    THEN LowerCase[CHOOSE i \in 1..Len(UpperCase) : UpperCase[i] = c]
    ELSE c

\* str.lower()
Lower(s) == [i \in 1..Len(s) |-> LowerChar(s[i])]

\* s < t on Python strings: lexicographic on code points, a proper prefix is less
RECURSIVE StrLess(_, _)
StrLess(s, t) ==
    IF t = <<>> THEN FALSE
    ELSE IF s = <<>> THEN TRUE
    ELSE IF Ord(Head(s)) # Ord(Head(t)) THEN Ord(Head(s)) < Ord(Head(t))
    ELSE StrLess(Tail(s), Tail(t))

Reverse(xs) == [i \in 1..Len(xs) |-> xs[Len(xs) + 1 - i]]

RECURSIVE LastIndexOf(_, _)
\* the largest index of character c in s, 0 when absent
LastIndexOf(s, c) ==
    IF s = <<>> THEN 0
    ELSE IF s[Len(s)] = c THEN Len(s)
    ELSE LastIndexOf(SubSeq(s, 1, Len(s) - 1), c)

RECURSIVE RStripSlashes(_)
RStripSlashes(s) ==
    IF Len(s) > 1 /\ s[Len(s)] = "/" THEN RStripSlashes(SubSeq(s, 1, Len(s) - 1))
    ELSE s

\* Path(s).name: the final path component (trailing separators ignored)
PathName(s) ==
    LET p == RStripSlashes(s)
        k == LastIndexOf(p, "/")
    IN  SubSeq(p, k + 1, Len(p))

(***************************************************************************)
(* Python values and JSON documents.                                       *)
(***************************************************************************)
PyNone == [t |-> "NoneType"]
PyStr(s) == [t |-> "str", s |-> s]
PyInt(n) == [t |-> "int", n |-> n]
PyList(xs) == [t |-> "list", items |-> xs]
\* a dict: its items in insertion order, keys unique
PyDict(kv) == [t |-> "dict", kv |-> kv]
\* a pathlib.Path: a place, and the stem of the file there
PyPath(place, stem) == [t |-> "Path", place |-> place, stem |-> stem]

JNull == [j |-> "null"]
JString(s) == [j |-> "string", s |-> s]
JNumber(n) == [j |-> "number", n |-> n]
JArray(xs) == [j |-> "array", items |-> xs]
\* an object: its members <<key, value>> in text order
JObject(ms) == [j |-> "object", members |-> ms]
\* a text that is no JSON document
Malformed == [j |-> "malformed"]

DictKeys(d) == {d.kv[i][1] : i \in 1..Len(d.kv)}
DictHas(d, k) == k \in DictKeys(d)
DictGet(d, k, default) ==
    IF DictHas(d, k)
    THEN d.kv[CHOOSE i \in 1..Len(d.kv) : d.kv[i][1] = k][2]
    ELSE default

\* d[k] = v on a dict: replaces in place, or appends
DictSet(kv, k, v) ==
    IF \E i \in 1..Len(kv) : kv[i][1] = k
    THEN [i \in 1..Len(kv) |-> IF kv[i][1] = k THEN <<k, v>> ELSE kv[i]]
    ELSE Append(kv, <<k, v>>)

RECURSIVE json_loads(_)
RECURSIVE LoadMembers(_, _)
\* the dict of an object's members, a repeated key keeping its last value
LoadMembers(ms, acc) ==
    IF ms = <<>> THEN acc
    ELSE LoadMembers(Tail(ms), DictSet(acc, Head(ms)[1], json_loads(Head(ms)[2])))

\* json.loads on a well-formed document
json_loads(doc) ==
    CASE doc.j = "null" -> PyNone
      [] doc.j = "string" -> PyStr(doc.s)
      [] doc.j = "number" -> PyInt(doc.n)
      [] doc.j = "array" -> PyList([i \in 1..Len(doc.items) |-> json_loads(doc.items[i])])
      [] doc.j = "object" -> PyDict(LoadMembers(doc.members, <<>>))

RECURSIVE json_dumps(_)
\* json.dumps on the values the ledger holds
json_dumps(v) ==
    CASE v.t = "NoneType" -> JNull
      [] v.t = "str" -> JString(v.s)
      [] v.t = "int" -> JNumber(v.n)
      [] v.t = "list" -> JArray([i \in 1..Len(v.items) |-> json_dumps(v.items[i])])
      [] v.t = "dict" ->
            JObject([i \in 1..Len(v.kv) |-> <<v.kv[i][1], json_dumps(v.kv[i][2])>>])

(***************************************************************************)
(* The ledger: InstalledApp and InstalledAppsManager.                      *)
(***************************************************************************)
FieldNames == <<"name", "version", "source_path", "install_path", "icon_name",
                "categories", "install_date", "comment", "desktop_file">>

Fields == {FieldNames[i] : i \in 1..Len(FieldNames)}

\* the dataclass fields that have no default
RequiredFields == Fields \ {"comment", "desktop_file"}

\* InstalledApp(**d): the dataclass constructor called with keyword arguments
InstalledApp(d) ==
    IF d.t # "dict" THEN [exc |-> "TypeError"]
    ELSE IF ~(DictKeys(d) \subseteq Fields) THEN [exc |-> "TypeError"]
    ELSE IF ~(RequiredFields \subseteq DictKeys(d)) THEN [exc |-> "TypeError"]
    ELSE [exc |-> "none",
          val |-> [name |-> DictGet(d, "name", PyNone),
                   version |-> DictGet(d, "version", PyNone),
                   source_path |-> DictGet(d, "source_path", PyNone),
                   install_path |-> DictGet(d, "install_path", PyNone),
                   icon_name |-> DictGet(d, "icon_name", PyNone),
                   categories |-> DictGet(d, "categories", PyNone),
                   install_date |-> DictGet(d, "install_date", PyNone),
                   comment |-> DictGet(d, "comment", PyNone),
                   desktop_file |-> DictGet(d, "desktop_file", PyNone)]]

asdictDropsOptional(app) ==
    PyDict([i \in 1..Len(FieldNames) - 1 |-> <<FieldNames[i], app[FieldNames[i]]>>])

\* dataclasses.asdict: every field, in declaration order
asdict(app) ==
    PyDict([i \in 1..Len(FieldNames) |-> <<FieldNames[i], app[FieldNames[i]]>>])

NoFile == [exists |-> FALSE]
FileWith(doc) == [exists |-> TRUE, text |-> doc]

\* the items a for loop draws from a value, or that the value is not iterable
Iterate(v) ==
    CASE v.t = "list" -> [exc |-> "none", items |-> v.items]
      [] v.t = "str" -> [exc |-> "none", items |-> [i \in 1..Len(v.s) |-> PyStr(<<v.s[i]>>)]]
      \* a dict yields its keys, which are strings (their text plays no part)
      [] v.t = "dict" -> [exc |-> "none", items |-> [i \in 1..Len(v.kv) |-> PyStr(<<>>)]]
      [] OTHER -> [exc |-> "TypeError"]

\* _load_registry: the exception that leaves the method (none when it returns) and
\* self.apps afterwards
_load_registry(file) ==
    IF ~file.exists THEN [exc |-> "none", apps |-> <<>>]
    ELSE IF file.text.j = "undecodable" THEN [exc |-> "UnicodeDecodeError", apps |-> <<>>]
    ELSE IF file.text.j = "malformed" THEN [exc |-> "none", apps |-> <<>>]
    ELSE LET data == json_loads(file.text) IN
         IF data.t # "dict" THEN [exc |-> "AttributeError", apps |-> <<>>]
         ELSE LET it == Iterate(DictGet(data, "apps", PyList(<<>>))) IN
              IF it.exc # "none" THEN [exc |-> "none", apps |-> <<>>]
              ELSE LET made == [i \in 1..Len(it.items) |-> InstalledApp(it.items[i])] IN
                   IF \E i \in 1..Len(made) : made[i].exc # "none"
                   THEN [exc |-> "none", apps |-> <<>>]
                   ELSE [exc |-> "none", apps |-> [i \in 1..Len(made) |-> made[i].val]]

\* the text _save_registry writes for self.apps
RegistryText(apps) ==
    json_dumps(PyDict(<< <<"apps", PyList([i \in 1..Len(apps) |-> asdict(apps[i])])>> >>))

\* a text that cannot be decoded (read_text raises before json.loads runs)
Undecodable == [j |-> "undecodable"]

\* Path.write_text: the file after the call, by how the write went
WriteText(file, text, outcome) ==
    CASE outcome = "ok" -> FileWith(text)
      [] outcome = "write_failed" -> FileWith(Malformed)

WriteOutcomes == {"ok", "write_failed"}

addKeepsOld(apps, app) == Append(apps, app)

addInPlace(apps, app) ==
    IF \E i \in 1..Len(apps) : apps[i].install_path = app.install_path
    THEN [i \in 1..Len(apps) |-> IF apps[i].install_path = app.install_path THEN app ELSE apps[i]]
    ELSE Append(apps, app)

addKeyedByLauncher(apps, app) ==
    Append(SelectSeq(apps, LAMBDA a : a.desktop_file # app.desktop_file), app)

\* add, lines 51-52: self.apps after the filter and the append
add(apps, app) ==
    Append(SelectSeq(apps, LAMBDA a : a.install_path # app.install_path), app)

removeFirstOnly(apps, install_path) ==
    IF \E i \in 1..Len(apps) : apps[i].install_path = install_path
    THEN LET k == CHOOSE i \in 1..Len(apps) :
                    /\ apps[i].install_path = install_path
                    /\ \A h \in 1..(i - 1) : apps[h].install_path # install_path
         IN  SubSeq(apps, 1, k - 1) \o SubSeq(apps, k + 1, Len(apps))
    ELSE apps

\* remove, line 57: self.apps after the filter
remove(apps, install_path) ==
    SelectSeq(apps, LAMBDA a : a.install_path # install_path)

get_by_filenameFullPath(apps, filename) ==
    IF \E i \in 1..Len(apps) : apps[i].install_path.s = filename
    THEN apps[CHOOSE i \in 1..Len(apps) : apps[i].install_path.s = filename]
    ELSE PyNone

RECURSIVE get_by_filename(_, _)
\* get_by_filename, lines 75-80: the first app whose Path(install_path).name is filename
get_by_filename(apps, filename) ==
    IF apps = <<>> THEN PyNone
    ELSE IF PathName(Head(apps).install_path.s) = filename THEN Head(apps)
    ELSE get_by_filename(Tail(apps), filename)

_save_registryMerges(file, apps, outcome) ==
    LET held == {apps[i].install_path : i \in 1..Len(apps)}
        others == SelectSeq(_load_registry(file).apps, LAMBDA a : a.install_path \notin held)
    IN  WriteText(file, RegistryText(others \o apps), outcome)

\* _save_registry: the registry file after the call
_save_registry(file, apps, outcome) == WriteText(file, RegistryText(apps), outcome)

(***************************************************************************)
(* Inputs of the ledger model.                                             *)
(***************************************************************************)
Instances == {1, 2}

InstallPaths == {<<"/", "a", "/", "x">>, <<"/", "b", "/", "x">>, <<"/", "a", "/", "y">>}

\* a record as install() builds it: every field a string, categories a list of
\* strings, comment and desktop_file a string or None
MakeApp(name, install_path, install_date, optional) ==
    [name |-> PyStr(name),
     version |-> PyStr(<<"1">>),
     source_path |-> PyStr(<<"/">> \o PathName(install_path)),
     install_path |-> PyStr(install_path),
     icon_name |-> PyStr(<<"c">>),
     categories |-> PyList(IF optional THEN <<PyStr(<<"A">>), PyStr(<<"B">>)>> ELSE <<>>),
     install_date |-> PyStr(install_date),
     comment |-> IF optional THEN PyStr(<<"c">>) ELSE PyNone,
     desktop_file |-> IF optional THEN PyStr(<<"/", "c">>) ELSE PyNone]

\* the records the mutation model adds: one for each install path, and a second
\* one, different in every other field, for the first path
AppPool ==
    {MakeApp(<<"A">>, p, <<"2">>, FALSE) : p \in InstallPaths}
        \cup {MakeApp(<<"a">>, <<"/", "a", "/", "x">>, <<"1", "0">>, TRUE)}

SeedA == MakeApp(<<"A">>, <<"/", "a", "/", "x">>, <<"2">>, FALSE)
SeedB == MakeApp(<<"a">>, <<"/", "a", "/", "x">>, <<"1", "0">>, TRUE)
SeedC == MakeApp(<<"A">>, <<"/", "b", "/", "x">>, <<"1", "0">>, TRUE)

\* the ledgers an earlier run (or an editor) may have left in the registry file; the
\* last two name one install path twice
SeedLedgers == {<<>>, <<SeedA>>, <<SeedC, SeedB>>, <<SeedA, SeedB>>, <<SeedB, SeedC, SeedA>>}

\* the registry file a run starts from
SeedFiles == {NoFile} \cup {FileWith(RegistryText(apps)) : apps \in SeedLedgers}

UnbornMgr == [state |-> "unborn", apps |-> <<>>, exc |-> "none"]
NoCall == [op |-> "none"]

IdleParse == [pc |-> "idle"]
\* no file yet in ~/Applications, ~/.local/share/applications and the icon theme
EmptyFs == [apps_dir |-> {}, applications_dir |-> {}, icons_dir |-> {}]
NoInstaller == [pc |-> "none"]
\* MainWindow.__init__, window.py lines 123-124: nothing loaded
NoWindow == [current_appimage |-> PyNone, current_info |-> PyNone]
\* no temporary directory made yet
NoTempDirs == [made |-> 0, exist |-> {}]
\* before the install script has ever run: the default handler of AppImage files
\* is absent or some other application's, there is no backup file and no entry
NoIntegration(default) == [default |-> default, backup |-> PyNone, entry |-> FALSE]

CallerInit ==
    /\ window = NoWindow
    /\ tmp = NoTempDirs
    /\ handler = NoIntegration(PyNone)

LedgerInit ==
    /\ mgr = [i \in Instances |-> UnbornMgr]
    /\ last = NoCall
    /\ lastMut = NoCall
    /\ nops = 0

OtherInit ==
    /\ parsed = IdleParse
    /\ fs = EmptyFs
    /\ inst = [k \in Instances |-> NoInstaller]
    /\ now = 0
    /\ ninstalls = 0
    /\ CallerInit

Init ==
    /\ registry_file \in SeedFiles
    /\ LedgerInit
    /\ OtherInit

(***************************************************************************)
(* InstalledAppsManager: the constructor and the two mutations.            *)
(***************************************************************************)
\* __init__, lines 27-32
Construct(i) ==
    /\ mgr[i].state = "unborn"
    /\ LET r == _load_registry(registry_file) IN
       /\ mgr' = [mgr EXCEPT ![i] = [state |-> IF r.exc = "none" THEN "ready" ELSE "raised",
                                     apps |-> r.apps,
                                     exc |-> r.exc]]
       /\ last' = [op |-> "init", inst |-> i, file |-> registry_file]
    /\ UNCHANGED <<registry_file, lastMut, nops, parsed, fs, inst, now, ninstalls>>
    /\ UNCHANGED callerVars

\* add(app), lines 48-53; outcome is how write_text went
Add(i, app, outcome) ==
    /\ mgr[i].state = "ready"
    /\ nops < MaxOps
    /\ LET after == add(mgr[i].apps, app)
           call == [op |-> "add", inst |-> i, app |-> app, before |-> mgr[i].apps,
                    after |-> after,
                    exc |-> IF outcome = "ok" THEN "none" ELSE "OSError"]
       IN  /\ mgr' = [mgr EXCEPT ![i].apps = after]
           /\ registry_file' = _save_registry(registry_file, after, outcome)
           /\ last' = call
           /\ lastMut' = call
    /\ nops' = nops + 1
    /\ UNCHANGED <<parsed, fs, inst, now, ninstalls>>
    /\ UNCHANGED callerVars

\* remove(install_path), lines 55-58
Remove(i, install_path, outcome) ==
    /\ mgr[i].state = "ready"
    /\ nops < MaxOps
    /\ LET after == remove(mgr[i].apps, PyStr(install_path))
           call == [op |-> "remove", inst |-> i, install_path |-> PyStr(install_path),
                    before |-> mgr[i].apps, after |-> after,
                    exc |-> IF outcome = "ok" THEN "none" ELSE "OSError"]
       IN  /\ mgr' = [mgr EXCEPT ![i].apps = after]
           /\ registry_file' = _save_registry(registry_file, after, outcome)
           /\ last' = call
           /\ lastMut' = call
    /\ nops' = nops + 1
    /\ UNCHANGED <<parsed, fs, inst, now, ninstalls>>
    /\ UNCHANGED callerVars

\* a call of get_by_filename(filename), lines 75-80
GetByFilename(i, filename) ==
    /\ mgr[i].state = "ready"
    /\ last' = [op |-> "get_by_filename", inst |-> i, filename |-> filename,
                ret |-> get_by_filename(mgr[i].apps, filename)]
    /\ UNCHANGED <<registry_file, mgr, lastMut, nops, parsed, fs, inst, now, ninstalls>>
    /\ UNCHANGED callerVars

\* the file names looked up: those of the install paths, and one of no install path
Filenames == {PathName(p) : p \in InstallPaths} \cup {<<"c">>}

Next ==
    \/ \E i \in Instances : Construct(i)
    \/ \E i \in Instances, app \in AppPool, outcome \in WriteOutcomes : Add(i, app, outcome)
    \/ \E i \in Instances, p \in InstallPaths, outcome \in WriteOutcomes : Remove(i, p, outcome)
    \/ \E i \in Instances, f \in Filenames : GetByFilename(i, f)

Spec == Init /\ [][Next]_vars

(***************************************************************************)
(* Claims about the ledger's mutations (specification Spec).               *)
(***************************************************************************)
UniquePaths(apps) ==
    \A i, k \in 1..Len(apps) : i # k => apps[i].install_path # apps[k].install_path

PathsOf(apps) == {apps[i].install_path : i \in 1..Len(apps)}

\* the indices of the records of apps that are not at install_path
KeptIndices(apps, install_path) == {i \in 1..Len(apps) : apps[i].install_path # install_path}

\* kept is apps restricted to the indices K, in the order of apps
IsRestriction(kept, apps, K) ==
    /\ Len(kept) = Cardinality(K)
    /\ \A i \in K : kept[Cardinality({k \in K : k <= i})] = apps[i]

\* the records a new manager would read from the registry file now
RecordsInFile == _load_registry(registry_file)

\* C1: a manager whose ledger holds no install_path twice still holds none twice
\* after any add or remove call.
C1_InstallPathStaysUnique ==
    [][\A i \in Instances :
          (mgr[i].state = "ready" /\ UniquePaths(mgr[i].apps)) => UniquePaths(mgr'[i].apps)]_vars

\* an add of a record whose install_path the unique ledger already held
C1_Witness ==
    /\ lastMut.op = "add"
    /\ last = lastMut
    /\ UniquePaths(lastMut.before)
    /\ Len(lastMut.before) >= 2
    /\ lastMut.app.install_path \in PathsOf(lastMut.before)
    /\ lastMut.app \notin {lastMut.before[i] : i \in 1..Len(lastMut.before)}

\* C2: when add(record) returns, the new record is the last element, no other
\* record has its install_path, the other records are those that were there before
\* in their previous order, and the registry file holds the in-memory list.
C2_AddReplacesAppendsPersists ==
    (last.op = "add" /\ last.exc = "none") =>
        LET apps == mgr[last.inst].apps
            n == Len(apps)
        IN  /\ n >= 1
            /\ apps[n] = last.app
            /\ \A i \in 1..(n - 1) : apps[i].install_path # last.app.install_path
            /\ IsRestriction(SubSeq(apps, 1, n - 1), last.before,
                             KeptIndices(last.before, last.app.install_path))
            /\ registry_file.exists
            /\ RecordsInFile = [exc |-> "none", apps |-> apps]

\* an add that returned, replaced a record that was not the last one and kept two others
C2_Witness ==
    /\ last.op = "add"
    /\ last.exc = "none"
    /\ Len(last.before) >= 3
    /\ last.before[1].install_path = last.app.install_path
    /\ Len(mgr[last.inst].apps) >= 2

\* C3: when remove(install_path) returns, the ledger holds exactly the records that
\* were not at install_path, in their previous order, the registry file holds the
\* same list, and a path held by no record leaves the list as it was.
C3_RemoveDeletesExactlyMatches ==
    (last.op = "remove" /\ last.exc = "none") =>
        LET apps == mgr[last.inst].apps IN
            /\ IsRestriction(apps, last.before, KeptIndices(last.before, last.install_path))
            /\ last.install_path \notin PathsOf(apps)
            /\ (last.install_path \notin PathsOf(last.before) => apps = last.before)
            /\ registry_file.exists
            /\ RecordsInFile = [exc |-> "none", apps |-> apps]

\* a remove that returned and deleted two records at once, keeping another
C3_Witness ==
    /\ last.op = "remove"
    /\ last.exc = "none"
    /\ Len(last.before) = Len(mgr[last.inst].apps) + 2
    /\ Len(mgr[last.inst].apps) >= 1

\* a remove of a path that no record held
C3_WitnessNoMatch ==
    /\ last.op = "remove"
    /\ last.exc = "none"
    /\ Len(last.before) >= 2
    /\ last.install_path \notin PathsOf(last.before)

\* the records of apps whose install_path ends in the file name filename
MatchesFilename(apps, filename) ==
    {i \in 1..Len(apps) : PathName(apps[i].install_path.s) = filename}

\* a get_by_filename call on the basename of the record that the same manager's
\* last add call, which returned, added
LookupAfterAdd ==
    /\ last.op = "get_by_filename"
    /\ lastMut.op = "add"
    /\ lastMut.exc = "none"
    /\ lastMut.inst = last.inst
    /\ last.filename = PathName(lastMut.app.install_path.s)

\* C6 (as claimed): after add(r), get_by_filename on the basename of
\* r.install_path returns a record equal to r, whatever else the ledger holds.
C6_Original_LookupReturnsAdded ==
    LookupAfterAdd => last.ret = lastMut.app

\* C6 (amended): after add(r), get_by_filename on the basename of r.install_path
\* returns the first record in ledger order with that basename; it is r exactly
\* when no other record of the ledger has the same basename.
C6_LookupReturnsFirstWithBasename ==
    LookupAfterAdd =>
        LET apps == mgr[last.inst].apps
            M == MatchesFilename(apps, last.filename)
        IN  /\ M # {}
            /\ \E k \in M : (\A h \in M : k <= h) /\ last.ret = apps[k]
            /\ (last.ret = lastMut.app <=> M = {Len(apps)})

\* a lookup after an add into a ledger that holds the same basename under another
\* directory, and one after an add into a ledger that holds none
C6_Witness ==
    /\ LookupAfterAdd
    /\ Cardinality(MatchesFilename(mgr[last.inst].apps, last.filename)) >= 2
    /\ last.ret # lastMut.app

C6_WitnessAlone ==
    /\ LookupAfterAdd
    /\ Len(mgr[last.inst].apps) >= 2
    /\ last.ret = lastMut.app

\* C9: a manager constructed right after another instance's add or remove returned
\* holds exactly that instance's records, every field equal, in the same order.
C9_SaveThenLoadIsIdentity ==
    (/\ last.op = "init"
     /\ lastMut.op \in {"add", "remove"}
     /\ lastMut.exc = "none"
     /\ lastMut.inst # last.inst) =>
        /\ mgr[last.inst].state = "ready"
        /\ mgr[last.inst].apps = mgr[lastMut.inst].apps
        /\ mgr[last.inst].apps = lastMut.after

\* a manager constructed after another one's add, loading records with and without
\* the optional fields
C9_Witness ==
    /\ last.op = "init"
    /\ lastMut.op = "add"
    /\ lastMut.exc = "none"
    /\ lastMut.inst # last.inst
    /\ Len(mgr[last.inst].apps) >= 2
    /\ \E i \in 1..Len(mgr[last.inst].apps) : mgr[last.inst].apps[i].desktop_file = PyNone
    /\ \E i \in 1..Len(mgr[last.inst].apps) : mgr[last.inst].apps[i].desktop_file # PyNone

(***************************************************************************)
(* Loading a registry file of any content (specification SpecLoad).        *)
(***************************************************************************)
\* the member a record object gives a key: the JSON value install() would have
\* written for that field, and a string for a key that is no field
MemberFor(key) ==
    CASE key = "categories" -> <<key, JArray(<<JString(<<"A">>)>>)>>
      [] key = "comment" -> <<key, JNull>>
      [] OTHER -> <<key, JString(<<"/", "a", "/", "x">>)>>

\* a record object with exactly the keys K, in field order
RecordObject(K) ==
    LET keys == SelectSeq(FieldNames \o <<"extra">>, LAMBDA k : k \in K)
    IN  JObject([i \in 1..Len(keys) |-> MemberFor(keys[i])])

AppsDocument(items) == JObject(<< <<"apps", JArray(items)>> >>)

\* documents whose top level is not an object
NonObjectDocuments == {JNull, JNumber(0), JString(<<"a">>), JArray(<<>>),
                       JArray(<<RecordObject(Fields)>>)}

\* objects whose "apps" member is absent, or is no array of objects
OddAppsDocuments ==
    {JObject(<<>>),
     JObject(<< <<"extra", JArray(<<>>)>> >>),
     JObject(<< <<"apps", JNull>> >>),
     JObject(<< <<"apps", JNumber(0)>> >>),
     JObject(<< <<"apps", JString(<<>>)>> >>),
     JObject(<< <<"apps", JString(<<"a">>)>> >>),
     JObject(<< <<"apps", JObject(<<>>)>> >>),
     JObject(<< <<"apps", RecordObject(Fields)>> >>),
     AppsDocument(<<JNull>>),
     AppsDocument(<<JString(<<"a">>)>>),
     AppsDocument(<<JArray(<<>>)>>),
     AppsDocument(<<RecordObject(Fields), JNumber(0)>>)}

\* one record with any set of the fields and possibly an unknown key, alone or
\* after a complete record
RecordDocuments ==
    {AppsDocument(<<RecordObject(K)>>) : K \in SUBSET (Fields \cup {"extra"})}
        \cup {AppsDocument(<<RecordObject(Fields), RecordObject(K)>>) :
                K \in {Fields, RequiredFields, Fields \ {"name"}, Fields \cup {"extra"}}}

\* every content of the registry file the load model starts from
LoadInputs ==
    {NoFile, FileWith(Malformed), FileWith(Undecodable)}
        \cup {FileWith(doc) : doc \in NonObjectDocuments \cup OddAppsDocuments \cup RecordDocuments}

InitLoad ==
    /\ registry_file \in LoadInputs
    /\ LedgerInit
    /\ OtherInit

NextLoad == \E i \in Instances : Construct(i)

SpecLoad == InitLoad /\ [][NextLoad]_vars

\* the keys of a JSON object
MemberKeys(obj) == {obj.members[i][1] : i \in 1..Len(obj.members)}

\* the value of an object's member "apps" (its last, should the key repeat)
AppsMember(obj) ==
    obj.members[CHOOSE i \in 1..Len(obj.members) :
                    /\ obj.members[i][1] = "apps"
                    /\ \A k \in (i + 1)..Len(obj.members) : obj.members[k][1] # "apps"]

\* a JSON value that is no record of the ledger: no object, an object with an
\* unknown key, or one that lacks a field without default
NotARecord(item) ==
    \/ item.j # "object"
    \/ ~(MemberKeys(item) \subseteq Fields)
    \/ ~(RequiredFields \subseteq MemberKeys(item))

\* the file contents C5 names: malformed JSON, JSON whose top level is not an
\* object, and a record list with an item that has missing or unknown fields
StructurallyInvalid(file) ==
    /\ file.exists
    /\ file.text.j # "undecodable"
    /\ \/ file.text.j = "malformed"
       \/ file.text.j # "object"
       \/ /\ "apps" \in MemberKeys(file.text)
          /\ LET apps == AppsMember(file.text)[2] IN
             /\ apps.j = "array"
             /\ \E i \in 1..Len(apps.items) : NotARecord(apps.items[i])

\* C5: constructing a manager on a structurally invalid or unparsable registry
\* file succeeds and yields an empty ledger.
C5_LoadNeverPropagates ==
    (last.op = "init" /\ StructurallyInvalid(last.file)) =>
        /\ mgr[last.inst].state = "ready"
        /\ mgr[last.inst].apps = <<>>

\* what does hold: malformed JSON and records with missing or unknown fields load
\* as the empty ledger; only a top level that is no object escapes the handler
C5_InvalidObjectLoadsEmpty ==
    (/\ last.op = "init"
     /\ StructurallyInvalid(last.file)
     /\ last.file.text.j \in {"malformed", "object"}) =>
        /\ mgr[last.inst].state = "ready"
        /\ mgr[last.inst].apps = <<>>

C5_ReachedRaise ==
    /\ last.op = "init"
    /\ last.file = FileWith(JArray(<<>>))
    /\ mgr[last.inst].state = "raised"
    /\ mgr[last.inst].exc = "AttributeError"

(***************************************************************************)
(* The ledger's queries (specification SpecQuery).                         *)
(***************************************************************************)
\* the comparison sorted() makes between two records: their keys, a.install_date
KeyLess(a, b) == StrLess(a.install_date.s, b.install_date.s)

RECURSIVE InsertSorted(_, _)
\* x put into the ascending list ys after every element that is not greater
InsertSorted(ys, x) ==
    IF ys = <<>> THEN <<x>>
    ELSE IF KeyLess(x, Head(ys)) THEN <<x>> \o ys
    ELSE <<Head(ys)>> \o InsertSorted(Tail(ys), x)

RECURSIVE StableSort(_)
\* list.sort(): ascending by key, elements with equal keys in their given order
StableSort(xs) ==
    IF xs = <<>> THEN <<>>
    ELSE InsertSorted(StableSort(SubSeq(xs, 1, Len(xs) - 1)), xs[Len(xs)])

\* sorted(xs, key=..., reverse=True): the list is reversed, sorted and reversed
\* again, which keeps elements with equal keys in their given order
SortedReverse(xs) == Reverse(StableSort(Reverse(xs)))

get_allSortThenReverse(apps) == [ret |-> Reverse(StableSort(apps)), apps |-> apps]

get_allAscending(apps) == [ret |-> StableSort(apps), apps |-> apps]

get_allInPlace(apps) == [ret |-> SortedReverse(apps), apps |-> SortedReverse(apps)]

\* get_all, lines 60-62: the list returned, and self.apps after the call
get_all(apps) == [ret |-> SortedReverse(apps), apps |-> apps]

get_by_nameCaseSensitive(apps, name) ==
    IF \E i \in 1..Len(apps) : apps[i].name.s = name
    THEN apps[CHOOSE i \in 1..Len(apps) :
                /\ apps[i].name.s = name
                /\ \A h \in 1..(i - 1) : apps[h].name.s # name]
    ELSE PyNone

RECURSIVE get_by_name(_, _)
\* get_by_name, lines 64-69
get_by_name(apps, name) ==
    IF apps = <<>> THEN PyNone
    ELSE IF Lower(Head(apps).name.s) = Lower(name) THEN Head(apps)
    ELSE get_by_name(Tail(apps), name)

is_installedCaseSensitive(apps, name) == \E i \in 1..Len(apps) : apps[i].name.s = name

\* is_installed, lines 71-73
is_installed(apps, name) == \E i \in 1..Len(apps) : Lower(apps[i].name.s) = Lower(name)

\* the names and install dates of the records queried, and the names asked for
RecordNames == {<<"A", "b">>, <<"a", "B">>, <<"B">>}
AskedNames == {<<"A", "B">>, <<"a", "b">>, <<"b">>, <<"a">>}
InstallDates == {<<"1">>, <<"1", "0">>, <<"2">>}

\* the install path of the record named name
PathOfName(name) ==
    CASE name = <<"A", "b">> -> <<"/", "a", "/", "x">>
      [] name = <<"a", "B">> -> <<"/", "b", "/", "x">>
      [] OTHER -> <<"/", "a", "/", "y">>

QueryPool == {MakeApp(n, PathOfName(n), d, FALSE) : n \in RecordNames, d \in InstallDates}

SeqsUpTo(S, n) == UNION {[1..k -> S] : k \in 0..n}

InitQuery ==
    /\ registry_file \in {FileWith(RegistryText(apps)) : apps \in SeqsUpTo(QueryPool, MaxQueryApps)}
    /\ LedgerInit
    /\ OtherInit

\* a call of get_all(), lines 60-62
GetAll(i) ==
    /\ mgr[i].state = "ready"
    /\ LET r == get_all(mgr[i].apps) IN
       /\ mgr' = [mgr EXCEPT ![i].apps = r.apps]
       /\ last' = [op |-> "get_all", inst |-> i, before |-> mgr[i].apps, ret |-> r.ret]
    /\ UNCHANGED <<registry_file, lastMut, nops, parsed, fs, inst, now, ninstalls>>
    /\ UNCHANGED callerVars

\* a call of get_by_name(name), lines 64-69
GetByName(i, name) ==
    /\ mgr[i].state = "ready"
    /\ last' = [op |-> "get_by_name", inst |-> i, name |-> name,
                ret |-> get_by_name(mgr[i].apps, name)]
    /\ UNCHANGED <<registry_file, mgr, lastMut, nops, parsed, fs, inst, now, ninstalls>>
    /\ UNCHANGED callerVars

\* a call of is_installed(name), lines 71-73
IsInstalled(i, name) ==
    /\ mgr[i].state = "ready"
    /\ last' = [op |-> "is_installed", inst |-> i, name |-> name,
                ret |-> is_installed(mgr[i].apps, name)]
    /\ UNCHANGED <<registry_file, mgr, lastMut, nops, parsed, fs, inst, now, ninstalls>>
    /\ UNCHANGED callerVars

NextQuery ==
    \/ Construct(1)
    \/ GetAll(1)
    \/ \E name \in AskedNames : GetByName(1, name)
    \/ \E name \in AskedNames : IsInstalled(1, name)

SpecQuery == InitQuery /\ [][NextQuery]_vars

\* C4: get_all() returns a permutation of the ledger, by install_date string
\* descending, records with equal install_date in their ledger order, and leaves
\* the stored order as it was.
C4_GetAllSortedDescendingStable ==
    last.op = "get_all" =>
        LET apps == last.before
            ret == last.ret
            n == Len(apps)
        IN  /\ Len(ret) = n
            /\ \E f \in [1..n -> 1..n] :
                  /\ \A i, k \in 1..n : i # k => f[i] # f[k]
                  /\ \A i \in 1..n : ret[i] = apps[f[i]]
                  /\ \A i, k \in 1..n :
                        (i < k /\ ret[i].install_date = ret[k].install_date) => f[i] < f[k]
            /\ \A i, k \in 1..n :
                  i < k => ~StrLess(ret[i].install_date.s, ret[k].install_date.s)
            /\ mgr[last.inst].apps = apps

\* a get_all() on three records, two of them different and of the same date, stored
\* in an order that is not the one returned
C4_Witness ==
    /\ last.op = "get_all"
    /\ Len(last.before) = 3
    /\ last.ret # last.before
    /\ \E i, k \in 1..3 :
          /\ i < k
          /\ last.before[i].install_date = last.before[k].install_date
          /\ last.before[i] # last.before[k]
    /\ \E i, k \in 1..3 : last.before[i].install_date # last.before[k].install_date

\* the indices of the records whose name is name, letter case ignored
NameMatches(apps, name) == {i \in 1..Len(apps) : Lower(apps[i].name.s) = Lower(name)}

\* C8: get_by_name(name) returns the first record in ledger order whose name is
\* name ignoring letter case, None when there is none, and is_installed(name) is
\* true exactly when get_by_name(name) returns a record.
C8_GetByNameFirstCaseInsensitive ==
    /\ last.op = "get_by_name" =>
          LET apps == mgr[last.inst].apps
              M == NameMatches(apps, last.name)
          IN  /\ M = {} => last.ret = PyNone
              /\ M # {} => \E k \in M : (\A h \in M : k <= h) /\ last.ret = apps[k]
              /\ (last.ret # PyNone) = is_installed(apps, last.name)
    /\ last.op = "is_installed" =>
          /\ last.ret = (get_by_name(mgr[last.inst].apps, last.name) # PyNone)
          /\ last.ret = (NameMatches(mgr[last.inst].apps, last.name) # {})

\* a get_by_name that skipped a record and returned the first of two whose names
\* differ from the argument in letter case only
C8_Witness ==
    /\ last.op = "get_by_name"
    /\ last.ret # PyNone
    /\ last.ret.name.s # last.name
    /\ Cardinality(NameMatches(mgr[last.inst].apps, last.name)) >= 2
    /\ 1 \notin NameMatches(mgr[last.inst].apps, last.name)

(***************************************************************************)
(* AppImageParser (specification SpecParse).                               *)
(***************************************************************************)
\* Path(s).stem: the final component without its last suffix
PathStem(s) ==
    LET name == PathName(s)
        i == LastIndexOf(name, ".") - 1
    IN  IF 0 < i /\ i < Len(name) - 1 THEN SubSeq(name, 1, i) ELSE name

RECURSIVE SplitFrom(_, _, _)
\* the segments of s between separators, cur being the segment under way
SplitFrom(s, sep, cur) ==
    IF s = <<>> THEN <<cur>>
    ELSE IF Head(s) = sep THEN <<cur>> \o SplitFrom(Tail(s), sep, <<>>)
    ELSE SplitFrom(Tail(s), sep, Append(cur, Head(s)))

\* str.split(sep)
Split(s, sep) == SplitFrom(s, sep, <<>>)

RECURSIVE LStrip(_)
LStrip(s) == IF s # <<>> /\ Head(s) = " " THEN LStrip(Tail(s)) ELSE s

RECURSIVE RStrip(_)
RStrip(s) == IF s # <<>> /\ s[Len(s)] = " " THEN RStrip(SubSeq(s, 1, Len(s) - 1)) ELSE s

\* str.strip()
Strip(s) == LStrip(RStrip(s))

ParseCategoriesKeepsEmpty(value) ==
    [i \in 1..Len(Split(value, ";")) |-> Strip(Split(value, ";")[i])]

ParseCategoriesUnstripped(value) ==
    SelectSeq(Split(value, ";"), LAMBDA c : Strip(c) # <<>>)

\* the categories list of line 130: split on ";", stripped, empty entries dropped
ParseCategories(value) ==
    LET stripped == [i \in 1..Len(Split(value, ";")) |-> Strip(Split(value, ";")[i])]
    IN  SelectSeq(stripped, LAMBDA c : c # <<>>)

\* A descriptor file as configparser reads it: it does not parse, or it is a list of
\* sections, each with its options <<key, value>>; keys keep their case (line 115).
SectionNames(desktop) == {desktop.sections[i].name : i \in 1..Len(desktop.sections)}

SectionOf(desktop, name) ==
    desktop.sections[CHOOSE i \in 1..Len(desktop.sections) : desktop.sections[i].name = name]

OptionKeys(section) == {section.opts[i][1] : i \in 1..Len(section.opts)}

OptionValue(section, key) ==
    section.opts[CHOOSE i \in 1..Len(section.opts) : section.opts[i][1] = key][2]

\* entry.get(key, fallback) on the section "Desktop Entry": the section's option,
\* else the DEFAULT section's, else the fallback
EntryGet(desktop, key, fallback) ==
    LET entry == SectionOf(desktop, "Desktop Entry") IN
    IF key \in OptionKeys(entry) THEN OptionValue(entry, key)
    ELSE IF "DEFAULT" \in SectionNames(desktop)
            /\ key \in OptionKeys(SectionOf(desktop, "DEFAULT"))
         THEN OptionValue(SectionOf(desktop, "DEFAULT"), key)
    ELSE fallback

_parse_desktop_fileNestedFirst(tree) ==
    LET desktop_files == IF tree.nested_desktop # <<>> THEN tree.nested_desktop
                         ELSE tree.root_desktop
    IN  IF desktop_files = <<>>
        THEN [exc |-> "RuntimeError", msg |-> "No .desktop file found in AppImage"]
        ELSE LET desktop == desktop_files[1] IN
             IF ~desktop.parses THEN [exc |-> "configparser.Error", msg |-> ""]
             ELSE IF "Desktop Entry" \notin SectionNames(desktop)
             THEN [exc |-> "RuntimeError",
                   msg |-> "Invalid .desktop file: no [Desktop Entry] section"]
             ELSE [exc |-> "none",
                   val |-> PyDict(<< <<"name", PyStr(EntryGet(desktop, "Name", <<>>))>>,
                                     <<"exec", PyStr(EntryGet(desktop, "Exec", <<>>))>>,
                                     <<"icon", PyStr(EntryGet(desktop, "Icon", <<>>))>>,
                                     <<"categories",
                                       PyList([i \in 1..Len(ParseCategories(
                                                   EntryGet(desktop, "Categories", <<>>))) |->
                                                 PyStr(ParseCategories(
                                                   EntryGet(desktop, "Categories", <<>>))[i])])>>,
                                     <<"comment", PyStr(EntryGet(desktop, "Comment", <<>>))>>,
                                     <<"raw", PyStr(desktop.raw)>> >>)]

\* _parse_desktop_file, lines 96-133, on the extracted tree
_parse_desktop_file(tree) ==
    LET desktop_files == IF tree.root_desktop # <<>> THEN tree.root_desktop
                         ELSE tree.nested_desktop
    IN  IF desktop_files = <<>>
        THEN [exc |-> "RuntimeError", msg |-> "No .desktop file found in AppImage"]
        ELSE LET desktop == desktop_files[1] IN
             IF ~desktop.parses THEN [exc |-> "configparser.Error", msg |-> ""]
             ELSE IF "Desktop Entry" \notin SectionNames(desktop)
             THEN [exc |-> "RuntimeError",
                   msg |-> "Invalid .desktop file: no [Desktop Entry] section"]
             ELSE [exc |-> "none",
                   val |-> PyDict(<< <<"name", PyStr(EntryGet(desktop, "Name", <<>>))>>,
                                     <<"exec", PyStr(EntryGet(desktop, "Exec", <<>>))>>,
                                     <<"icon", PyStr(EntryGet(desktop, "Icon", <<>>))>>,
                                     <<"categories",
                                       PyList([i \in 1..Len(ParseCategories(
                                                   EntryGet(desktop, "Categories", <<>>))) |->
                                                 PyStr(ParseCategories(
                                                   EntryGet(desktop, "Categories", <<>>))[i])])>>,
                                     <<"comment", PyStr(EntryGet(desktop, "Comment", <<>>))>>,
                                     <<"raw", PyStr(desktop.raw)>> >>)]

\* the candidate locations of _find_icon, lines 140-149, in search order
IconCandidates ==
    <<"root.png", "root.svg", "hicolor/256x256.png", "hicolor/128x128.png",
      "hicolor/64x64.png", "hicolor/scalable.svg", "pixmaps.png", "pixmaps.svg">>

_find_iconLastMatch(tree, icon_name) ==
    LET here == IF icon_name \in DOMAIN tree.icons THEN tree.icons[icon_name] ELSE {} IN
    IF \E i \in 1..Len(IconCandidates) : IconCandidates[i] \in here
    THEN PyPath(IconCandidates[CHOOSE i \in 1..Len(IconCandidates) :
                                /\ IconCandidates[i] \in here
                                /\ \A h \in (i + 1)..Len(IconCandidates) :
                                      IconCandidates[h] \notin here],
                icon_name)
    ELSE PyNone

\* _find_icon, lines 135-159: the first candidate that exists in the tree, or None;
\* tree.icons[n] is the set of candidate locations at which icon name n has a file
_find_icon(tree, icon_name) ==
    LET here == IF icon_name \in DOMAIN tree.icons THEN tree.icons[icon_name] ELSE {} IN
    IF \E i \in 1..Len(IconCandidates) : IconCandidates[i] \in here
    THEN PyPath(IconCandidates[CHOOSE i \in 1..Len(IconCandidates) :
                                /\ IconCandidates[i] \in here
                                /\ \A h \in 1..(i - 1) : IconCandidates[h] \notin here],
                icon_name)
    ELSE PyNone

\* what the extraction run of the bundle writes to its error stream
ErrorStream(bundle) == IF "stderr" \in DOMAIN bundle THEN bundle.stderr ELSE <<>>

_extract_appimageDropsStream(bundle) ==
    IF ~bundle.executable /\ bundle.chmod = "PermissionError"
    THEN [exc |-> "RuntimeError", msg |-> "Cannot make AppImage executable",
          detail |-> <<>>, executable |-> FALSE]
    ELSE IF ~bundle.executable /\ bundle.chmod # "ok"
    THEN [exc |-> bundle.chmod, msg |-> "", detail |-> <<>>, executable |-> FALSE]
    ELSE IF bundle.extract = "OSError"
    THEN [exc |-> "OSError", msg |-> "", detail |-> <<>>, executable |-> TRUE]
    ELSE IF bundle.extract # "exit 0"
    THEN [exc |-> "RuntimeError", msg |-> "Failed to extract AppImage",
          detail |-> <<>>, executable |-> TRUE]
    ELSE [exc |-> "none", executable |-> TRUE]

\* _extract_appimage, lines 75-94: the exception raised (none when it returns), with
\* the fixed part of its message and the text the message goes on with, and whether
\* the bundle file is executable afterwards
_extract_appimage(bundle) ==
    IF ~bundle.executable /\ bundle.chmod = "PermissionError"
    THEN [exc |-> "RuntimeError", msg |-> "Cannot make AppImage executable",
          detail |-> <<>>, executable |-> FALSE]
    ELSE IF ~bundle.executable /\ bundle.chmod # "ok"
    THEN [exc |-> bundle.chmod, msg |-> "", detail |-> <<>>, executable |-> FALSE]
    ELSE IF bundle.extract = "OSError"
    THEN [exc |-> "OSError", msg |-> "", detail |-> <<>>, executable |-> TRUE]
    ELSE IF bundle.extract # "exit 0"
    THEN [exc |-> "RuntimeError", msg |-> "Failed to extract AppImage",
          detail |-> ErrorStream(bundle), executable |-> TRUE]
    ELSE [exc |-> "none", executable |-> TRUE]

parseDefaultsOnBadDescriptor(bundle) ==
    LET x == _extract_appimage(bundle) IN
    IF x.exc # "none"
    THEN [exc |-> x.exc, msg |-> x.msg, detail |-> x.detail, temp_dir |-> TRUE,
          executable |-> x.executable]
    ELSE LET p == _parse_desktop_file(bundle.tree)
             desktop_info == IF p.exc # "none" THEN PyDict(<<>>) ELSE p.val
             icon_name == DictGet(desktop_info, "icon", PyStr(<<"application">>))
         IN  [exc |-> "none", temp_dir |-> TRUE, executable |-> TRUE,
              info |-> [name |-> DictGet(desktop_info, "name",
                                         PyStr(PathStem(bundle.appimage_path))),
                        exec_cmd |-> DictGet(desktop_info, "exec", PyStr(<<>>)),
                        icon_name |-> icon_name,
                        icon_path |-> _find_icon(bundle.tree, icon_name.s),
                        categories |-> DictGet(desktop_info, "categories", PyList(<<>>)),
                        comment |-> DictGet(desktop_info, "comment", PyStr(<<>>)),
                        desktop_file_content |-> DictGet(desktop_info, "raw", PyStr(<<>>)),
                        temp_extract_dir |-> PyPath("tempdir", <<>>),
                        version |-> PyNone]]

\* parse, lines 43-73: the exception raised or the AppImageInfo returned, with the
\* temporary directory made at line 45 and the bundle's execute permission
parse(bundle) ==
    LET x == _extract_appimage(bundle) IN
    IF x.exc # "none"
    THEN [exc |-> x.exc, msg |-> x.msg, detail |-> x.detail, temp_dir |-> TRUE,
          executable |-> x.executable]
    ELSE LET p == _parse_desktop_file(bundle.tree) IN
         IF p.exc # "none"
         THEN [exc |-> p.exc, msg |-> p.msg, detail |-> <<>>, temp_dir |-> TRUE,
               executable |-> TRUE]
         ELSE LET desktop_info == p.val
                  icon_name == DictGet(desktop_info, "icon", PyStr(<<"application">>))
              IN  [exc |-> "none", temp_dir |-> TRUE, executable |-> TRUE,
                   info |-> [name |-> DictGet(desktop_info, "name",
                                              PyStr(PathStem(bundle.appimage_path))),
                             exec_cmd |-> DictGet(desktop_info, "exec", PyStr(<<>>)),
                             icon_name |-> icon_name,
                             icon_path |-> _find_icon(bundle.tree, icon_name.s),
                             categories |-> DictGet(desktop_info, "categories", PyList(<<>>)),
                             comment |-> DictGet(desktop_info, "comment", PyStr(<<>>)),
                             desktop_file_content |-> DictGet(desktop_info, "raw", PyStr(<<>>)),
                             temp_extract_dir |-> PyPath("tempdir", <<>>),
                             version |-> PyNone]]

\* The descriptors parsed.  Each option has one value; a descriptor is given by the
\* set of keys its [Desktop Entry] section holds.
OptionOrder == <<"Name", "name", "Exec", "Icon", "Categories", "Comment">>

ValueOf(key) ==
    CASE key = "Name" -> <<"A", " ", "b">>
      [] key = "name" -> <<"b">>
      [] key = "Exec" -> <<"x">>
      [] key = "Icon" -> <<"c">>
      [] key = "Categories" -> <<"A", ";", " ", "B", ";", ";", "C", ";">>
      [] OTHER -> <<"c">>

OptionsWith(K) ==
    LET keys == SelectSeq(OptionOrder, LAMBDA k : k \in K)
    IN  [i \in 1..Len(keys) |-> <<keys[i], ValueOf(keys[i])>>]

Desktop(sections) == [parses |-> TRUE, sections |-> sections, raw |-> sections]

EntryWith(K) == Desktop(<<[name |-> "Desktop Entry", opts |-> OptionsWith(K)]>>)

Descriptors ==
    {EntryWith(K) : K \in SUBSET {OptionOrder[i] : i \in 1..Len(OptionOrder)}}
        \cup {\* the file is no INI document
              [parses |-> FALSE, sections |-> <<>>, raw |-> <<>>],
              \* no [Desktop Entry] section
              Desktop(<<[name |-> "Desktop Action", opts |-> OptionsWith({"Name"})]>>),
              \* Name= with an empty value
              Desktop(<<[name |-> "Desktop Entry", opts |-> << <<"Name", <<>>>> >>]>>),
              \* Name given in a [DEFAULT] section only
              Desktop(<<[name |-> "DEFAULT", opts |-> OptionsWith({"Name"})],
                        [name |-> "Desktop Entry", opts |-> OptionsWith({"Exec"})]>>)}

AppImagePaths == {<<"/", "x", ".", "A">>, <<"/", "a", "/", "y", "-", "1", ".", "0", ".", "A">>}

FullEntry == EntryWith({"Name", "Exec", "Icon", "Categories", "Comment"})

IconPlaces == {IconCandidates[i] : i \in 1..Len(IconCandidates)}

Tree(root_desktop, nested_desktop, icons) ==
    [root_desktop |-> root_desktop, nested_desktop |-> nested_desktop, icons |-> icons]

\* the trees an extraction leaves: any descriptor (or none, or two) at the root, one
\* or none under usr/share/applications, and icon files for the names "c" and ""
Trees ==
    {Tree(r, n, i) :
        r \in {<<>>, <<FullEntry, EntryWith({"Exec"})>>} \cup {<<d>> : d \in Descriptors},
        n \in {<<>>, <<EntryWith({"Name", "Icon"})>>},
        i \in {[k \in {<<"c">>} |-> {"hicolor/128x128.png", "root.png"}],
               [k \in {<<"c">>, <<>>} |-> {"pixmaps.svg"}],
               [k \in {<<"b">>} |-> {"root.svg"}]}}
        \cup {Tree(<<FullEntry>>, <<>>, [k \in {<<"c">>} |-> X]) : X \in SUBSET IconPlaces}

Bundle(path, exists, executable, chmod, extract, tree) ==
    [appimage_path |-> path, exists |-> exists, executable |-> executable,
     chmod |-> chmod, extract |-> extract, tree |-> tree]

\* the bundles parsed: every environment outcome on one tree, and every tree in an
\* environment where the extraction succeeds
Bundles ==
    {Bundle(p, e, x, c, r, Tree(<<FullEntry>>, <<>>, [k \in {<<"c">>} |-> {"root.png"}])) :
        p \in AppImagePaths, e \in BOOLEAN, x \in BOOLEAN,
        c \in {"ok", "PermissionError", "OSError"}, r \in {"exit 0", "exit 1", "OSError"}}
        \cup {Bundle(p, TRUE, x, "ok", "exit 0", t) :
                p \in AppImagePaths, x \in BOOLEAN, t \in Trees}

InitParse ==
    /\ registry_file = NoFile
    /\ LedgerInit
    /\ parsed \in {[pc |-> "new", bundle |-> b] : b \in Bundles}
    /\ fs = EmptyFs
    /\ inst = [k \in Instances |-> NoInstaller]
    /\ now = 0
    /\ ninstalls = 0
    /\ CallerInit

\* AppImageParser.__init__, lines 35-41
NewParser ==
    /\ parsed.pc = "new"
    /\ parsed' = IF parsed.bundle.exists
                 THEN [pc |-> "constructed", bundle |-> parsed.bundle]
                 ELSE [pc |-> "raised", bundle |-> parsed.bundle, at |-> "__init__",
                       out |-> [exc |-> "FileNotFoundError", msg |-> "AppImage not found",
                                temp_dir |-> FALSE,
                                executable |-> parsed.bundle.executable]]
    /\ UNCHANGED <<registry_file, mgr, last, lastMut, nops, fs, inst, now, ninstalls>>
    /\ UNCHANGED callerVars

\* AppImageParser.parse, lines 43-73
Parse ==
    /\ parsed.pc = "constructed"
    /\ LET out == parse(parsed.bundle) IN
       parsed' = [pc |-> IF out.exc = "none" THEN "returned" ELSE "raised",
                  bundle |-> parsed.bundle, at |-> "parse", out |-> out]
    /\ UNCHANGED <<registry_file, mgr, last, lastMut, nops, fs, inst, now, ninstalls>>
    /\ UNCHANGED callerVars

NextParse == NewParser \/ Parse

SpecParse == InitParse /\ [][NextParse]_vars

\* the descriptor file parse reads: the first at the root, else the first nested
DescriptorRead(tree) ==
    IF tree.root_desktop # <<>> THEN tree.root_desktop[1] ELSE tree.nested_desktop[1]

\* the keys written in the [Desktop Entry] section of the descriptor read
EntryKeys(tree) == OptionKeys(SectionOf(DescriptorRead(tree), "Desktop Entry"))

\* C10: when parse returns, the descriptor's name is the Name field of the
\* [Desktop Entry] section when that key is present, and the stem of the bundle's
\* file name when it is absent.
C10_NameOrFilenameStem ==
    parsed.pc = "returned" =>
        LET tree == parsed.bundle.tree
            entry == SectionOf(DescriptorRead(tree), "Desktop Entry")
        IN  /\ "Name" \in OptionKeys(entry) =>
                  parsed.out.info.name = PyStr(OptionValue(entry, "Name"))
            /\ "Name" \notin OptionKeys(entry) =>
                  parsed.out.info.name = PyStr(PathStem(parsed.bundle.appimage_path))

\* what the code does: the name is the Name value when the key is present
C10_NameWhenPresent ==
    (parsed.pc = "returned" /\ "Name" \in EntryKeys(parsed.bundle.tree)) =>
        parsed.out.info.name =
            PyStr(OptionValue(SectionOf(DescriptorRead(parsed.bundle.tree), "Desktop Entry"),
                              "Name"))

\* a parse that returned for a descriptor without Name key, the name being empty
C10_ReachedEmptyName ==
    /\ parsed.pc = "returned"
    /\ "Name" \notin EntryKeys(parsed.bundle.tree)
    /\ "DEFAULT" \notin SectionNames(DescriptorRead(parsed.bundle.tree))
    /\ parsed.out.info.name = PyStr(<<>>)
    /\ PathStem(parsed.bundle.appimage_path) = <<"y", "-", "1", ".", "0">>

(***************************************************************************)
(* The Categories value (specification SpecCategories).                    *)
(***************************************************************************)
\* the characters of the Categories values parsed
CategoryChars == {"A", ";", " "}

\* every value of at most MaxCategoryLen characters, and the value "A;B;;C;"
CategoryValues ==
    UNION {[1..n -> CategoryChars] : n \in 0..MaxCategoryLen}
        \cup {<<"A", ";", "B", ";", ";", "C", ";">>,
              <<" ", "A", " ", "B", ";", " ", ";", "C", " ">>}

\* a descriptor whose [Desktop Entry] section has a Categories key of that value,
\* and one that has no Categories key
CategoryDescriptors ==
    {Desktop(<<[name |-> "Desktop Entry",
                opts |-> << <<"Name", <<"A">>>>, <<"Categories", v>> >>]>>) :
        v \in CategoryValues}
        \cup {EntryWith({"Name"})}

InitCategories ==
    /\ registry_file = NoFile
    /\ LedgerInit
    /\ parsed \in {[pc |-> "new",
                    bundle |-> Bundle(<<"/", "x", ".", "A">>, TRUE, TRUE, "ok", "exit 0",
                                      Tree(<<d>>, <<>>, [k \in {<<"c">>} |-> {}]))] :
                     d \in CategoryDescriptors}
    /\ fs = EmptyFs
    /\ inst = [k \in Instances |-> NoInstaller]
    /\ now = 0
    /\ ninstalls = 0
    /\ CallerInit

SpecCategories == InitCategories /\ [][NextParse]_vars

\* the positions of ";" in value, with the position before the first character and
\* the one after the last
Cuts(value) == {0, Len(value) + 1} \cup {i \in 1..Len(value) : value[i] = ";"}

\* the segments of value between two neighbouring cuts, as <<first, last>> positions
\* of their characters that are not blanks at either end, for the segments that have
\* such a character
Kept(value) ==
    {<<a, b>> \in (1..Len(value)) \X (1..Len(value)) :
        /\ a <= b
        /\ value[a] \notin {" ", ";"}
        /\ value[b] \notin {" ", ";"}
        /\ \E c, d \in Cuts(value) :
              /\ c < a /\ b < d
              /\ \A i \in (c + 1)..(d - 1) : value[i] # ";"
              /\ \A i \in ((c + 1)..(a - 1)) \cup ((b + 1)..(d - 1)) : value[i] = " "}

\* the Categories value of the descriptor read, empty when the key is absent
CategoriesValue ==
    IF "Categories" \in EntryKeys(parsed.bundle.tree)
    THEN OptionValue(SectionOf(DescriptorRead(parsed.bundle.tree), "Desktop Entry"),
                     "Categories")
    ELSE <<>>

\* C11: the categories parse returns are the segments of the Categories value
\* between semicolons, each without its blanks at either end, the empty ones
\* dropped, in the order of the value; "A;B;;C;" gives A, B, C and an absent or
\* empty value gives the empty list.
C11_CategoriesSplitTrimDropOrder ==
    parsed.pc = "returned" =>
        LET value == CategoriesValue
            cats == parsed.out.info.categories.items
            K == Kept(value)
        IN  /\ Len(cats) = Cardinality(K)
            /\ \A k \in K :
                  cats[Cardinality({h \in K : h[1] <= k[1]})] = PyStr(SubSeq(value, k[1], k[2]))
            /\ value = <<"A", ";", "B", ";", ";", "C", ";">> =>
                  cats = <<PyStr(<<"A">>), PyStr(<<"B">>), PyStr(<<"C">>)>>
            /\ value = <<>> => cats = <<>>

\* the parse of "A;B;;C;", and the parse of a value with blanks around a segment
\* and a segment of blanks only
C11_Witness ==
    /\ parsed.pc = "returned"
    /\ CategoriesValue = <<"A", ";", "B", ";", ";", "C", ";">>
    /\ Len(parsed.out.info.categories.items) = 3

C11_WitnessBlanks ==
    /\ parsed.pc = "returned"
    /\ CategoriesValue = <<" ", "A", " ", "B", ";", " ", ";", "C", " ">>
    /\ parsed.out.info.categories.items = <<PyStr(<<"A", " ", "B">>), PyStr(<<"C">>)>>

C11_WitnessAbsent ==
    /\ parsed.pc = "returned"
    /\ "Categories" \notin EntryKeys(parsed.bundle.tree)
    /\ parsed.out.info.categories.items = <<>>

(***************************************************************************)
(* Claims about icon and descriptor discovery (specification SpecParse).   *)
(***************************************************************************)
\* running the bundle extracted it: it could be run and exited with 0
Extracted(bundle) ==
    /\ bundle.executable \/ bundle.chmod = "ok"
    /\ bundle.extract = "exit 0"

\* the tree holds a descriptor that configparser reads and that has the section
\* [Desktop Entry]
ValidDescriptor(tree) ==
    /\ tree.root_desktop # <<>> \/ tree.nested_desktop # <<>>
    /\ DescriptorRead(tree).parses
    /\ "Desktop Entry" \in SectionNames(DescriptorRead(tree))

\* parse() was called and is over
ParseOver == parsed.pc \in {"returned", "raised"} /\ parsed.at = "parse"

\* the search order of the icon candidates
SearchOrder ==
    <<"root.png", "root.svg", "hicolor/256x256.png", "hicolor/128x128.png",
      "hicolor/64x64.png", "hicolor/scalable.svg", "pixmaps.png", "pixmaps.svg">>

\* the candidate locations at which the tree has a file for the icon name
Existing(tree, icon_name) ==
    IF icon_name \in DOMAIN tree.icons THEN tree.icons[icon_name] ELSE {}

\* C12: for an extracted bundle with a valid descriptor, parse returns; its
\* icon_path is the first candidate in the search order that exists, for every set
\* of existing candidates, and None when none exists.
C12_FirstExistingIconWins ==
    (ParseOver /\ Extracted(parsed.bundle) /\ ValidDescriptor(parsed.bundle.tree)) =>
        /\ parsed.pc = "returned"
        /\ LET name == parsed.out.info.icon_name.s
               here == Existing(parsed.bundle.tree, name)
               icon_path == parsed.out.info.icon_path
           IN  /\ here = {} => icon_path = PyNone
               /\ here # {} =>
                     \E i \in 1..Len(SearchOrder) :
                         /\ SearchOrder[i] \in here
                         /\ \A h \in 1..(i - 1) : SearchOrder[h] \notin here
                         /\ icon_path = PyPath(SearchOrder[i], name)

\* a parse of a tree with the icon both at the root as .png and in the 128x128 theme
\* directory, one of a tree with three candidates none of which is the first, and
\* one of a tree with no candidate
C12_Witness ==
    /\ parsed.pc = "returned"
    /\ Existing(parsed.bundle.tree, parsed.out.info.icon_name.s) =
          {"root.png", "hicolor/128x128.png"}
    /\ parsed.out.info.icon_path = PyPath("root.png", parsed.out.info.icon_name.s)

C12_WitnessLater ==
    /\ parsed.pc = "returned"
    /\ Existing(parsed.bundle.tree, parsed.out.info.icon_name.s) =
          {"hicolor/64x64.png", "hicolor/scalable.svg", "pixmaps.svg"}
    /\ parsed.out.info.icon_path = PyPath("hicolor/64x64.png", <<"c">>)

C12_WitnessNone ==
    /\ parsed.pc = "returned"
    /\ Existing(parsed.bundle.tree, parsed.out.info.icon_name.s) = {}
    /\ parsed.out.info.icon_path = PyNone

\* the parse is over and its outcome is what the descriptor file desktop alone
\* gives: a failure when it is not read or has no [Desktop Entry] section, else the
\* fields of that section
ReadFrom(desktop) ==
    /\ parsed.pc = "returned" <=> (desktop.parses /\ "Desktop Entry" \in SectionNames(desktop))
    /\ parsed.pc = "returned" =>
          LET info == parsed.out.info IN
          /\ info.name = PyStr(EntryGet(desktop, "Name", <<>>))
          /\ info.exec_cmd = PyStr(EntryGet(desktop, "Exec", <<>>))
          /\ info.icon_name = PyStr(EntryGet(desktop, "Icon", <<>>))
          /\ info.comment = PyStr(EntryGet(desktop, "Comment", <<>>))
          /\ Len(info.categories.items) =
                Cardinality(Kept(EntryGet(desktop, "Categories", <<>>)))
          /\ info.desktop_file_content = PyStr(desktop.raw)

\* C13: the descriptor under usr/share/applications is read only when the
\* extraction root holds none; with one in both places the outcome and every field
\* come from the one at the root.
C13_RootDescriptorFirstNoMerge ==
    (ParseOver /\ Extracted(parsed.bundle)) =>
        LET tree == parsed.bundle.tree IN
        /\ tree.root_desktop # <<>> => ReadFrom(tree.root_desktop[1])
        /\ (tree.root_desktop = <<>> /\ tree.nested_desktop # <<>>) =>
              ReadFrom(tree.nested_desktop[1])

\* a parse of a tree with a descriptor in both places, the one at the root lacking
\* the Name and Icon keys that the nested one has
C13_Witness ==
    /\ parsed.pc = "returned"
    /\ parsed.bundle.tree.root_desktop # <<>>
    /\ parsed.bundle.tree.nested_desktop # <<>>
    /\ "Name" \notin EntryKeys(parsed.bundle.tree)
    /\ "Name" \in OptionKeys(SectionOf(parsed.bundle.tree.nested_desktop[1], "Desktop Entry"))
    /\ parsed.out.info.name = PyStr(<<>>)
    /\ parsed.out.info.icon_name = PyStr(<<>>)

\* a parse that failed on the descriptor at the root although the nested one is valid
C13_WitnessNoFallback ==
    /\ parsed.pc = "raised"
    /\ parsed.at = "parse"
    /\ Extracted(parsed.bundle)
    /\ parsed.bundle.tree.root_desktop # <<>>
    /\ parsed.bundle.tree.nested_desktop # <<>>

\* a parse that read the nested descriptor, the root holding none
C13_WitnessNested ==
    /\ parsed.pc = "returned"
    /\ parsed.bundle.tree.root_desktop = <<>>
    /\ parsed.out.info.name = PyStr(<<"A", " ", "b">>)

(***************************************************************************)
(* Claims about the failures of parse (specification SpecParse).           *)
(***************************************************************************)
\* a descriptor file was found, at the root or under usr/share/applications
DescriptorFound(tree) == tree.root_desktop # <<>> \/ tree.nested_desktop # <<>>

\* the descriptor file found has a [Desktop Entry] section
HasPrimarySection(tree) == "Desktop Entry" \in SectionNames(DescriptorRead(tree))

\* the three conditions under which parse may return
MayReturn(bundle) ==
    /\ Extracted(bundle)
    /\ DescriptorFound(bundle.tree)
    /\ HasPrimarySection(bundle.tree)

\* C14: parse returns an AppImageInfo only when the self-extraction exited with 0,
\* a descriptor file was found and it has a [Desktop Entry] section; in every other
\* case parse raises, and a parse that raises hands no AppImageInfo to its caller.
C14_ReturnsOnlyWhenAllStepsSucceed ==
    ParseOver =>
        /\ parsed.pc = "returned" => MayReturn(parsed.bundle)
        /\ ~MayReturn(parsed.bundle) => parsed.pc = "raised"
        /\ parsed.pc = "returned" <=> "info" \in DOMAIN parsed.out
        /\ parsed.pc = "raised" <=> parsed.out.exc # "none"

\* parses that raised: no descriptor file in an extracted tree that has an icon, a
\* failed extraction of a bundle with a valid tree, a descriptor without its section
C14_Witness ==
    /\ parsed.pc = "raised"
    /\ parsed.at = "parse"
    /\ Extracted(parsed.bundle)
    /\ ~DescriptorFound(parsed.bundle.tree)
    /\ "info" \notin DOMAIN parsed.out

C14_WitnessExtraction ==
    /\ parsed.pc = "raised"
    /\ parsed.at = "parse"
    /\ parsed.bundle.extract = "exit 1"
    /\ DescriptorFound(parsed.bundle.tree)
    /\ "info" \notin DOMAIN parsed.out

C14_WitnessSection ==
    /\ parsed.pc = "raised"
    /\ parsed.at = "parse"
    /\ Extracted(parsed.bundle)
    /\ DescriptorFound(parsed.bundle.tree)
    /\ DescriptorRead(parsed.bundle.tree).parses
    /\ ~HasPrimarySection(parsed.bundle.tree)

C14_WitnessReturned ==
    /\ parsed.pc = "returned"
    /\ MayReturn(parsed.bundle)
    /\ "info" \in DOMAIN parsed.out

\* why parsing the bundle fails, in the terms of the error taxonomy
Cause(bundle) ==
    IF ~bundle.exists THEN "bundle missing"
    ELSE IF ~bundle.executable /\ bundle.chmod # "ok" THEN "cannot make executable"
    ELSE IF bundle.extract # "exit 0" THEN "extraction failed"
    ELSE IF ~DescriptorFound(bundle.tree) THEN "descriptor missing"
    ELSE IF ~HasPrimarySection(bundle.tree) THEN "descriptor invalid"
    ELSE "none"

\* the type of the exception that AppImageParser(path).parse() raises for the bundle
ErrorType(bundle) ==
    IF ~bundle.exists THEN "FileNotFoundError" ELSE parse(bundle).exc

\* C15 (as claimed): the type of the error tells the caller the cause: two bundles
\* that fail for different causes never fail with an error of the same type.
C15_ErrorTypeTellsCause ==
    parsed.pc = "raised" =>
        \A b \in Bundles :
            (Cause(b) \notin {"none", Cause(parsed.bundle)}) => ErrorType(b) # parsed.out.exc

\* what the code does: only the missing bundle has a type of its own; a refused
\* chmod, a non-zero exit, a missing descriptor and a missing section are all
\* RuntimeError, told apart by their message
C15_OnlyMissingBundleTyped ==
    parsed.pc = "raised" =>
        /\ parsed.out.exc = "FileNotFoundError" <=> Cause(parsed.bundle) = "bundle missing"
        /\ (\/ Cause(parsed.bundle) = "cannot make executable"
               /\ parsed.bundle.chmod = "PermissionError"
            \/ Cause(parsed.bundle) = "extraction failed" /\ parsed.bundle.extract = "exit 1"
            \/ Cause(parsed.bundle) = "descriptor missing"
            \/ Cause(parsed.bundle) = "descriptor invalid"
               /\ DescriptorRead(parsed.bundle.tree).parses)
              => parsed.out.exc = "RuntimeError"

\* a failed extraction reported with the type that a missing descriptor has too
C15_ReachedSameType ==
    /\ parsed.pc = "raised"
    /\ Cause(parsed.bundle) = "extraction failed"
    /\ parsed.out.exc = "RuntimeError"
    /\ \E b \in Bundles : Cause(b) = "descriptor missing" /\ ErrorType(b) = "RuntimeError"

(***************************************************************************)
(* The auto_make_executable setting (specification SpecSettings).          *)
(***************************************************************************)
\* AppSettings, settings.py lines 9-13, as the settings file of the run gives it
AppSettings(auto_make_executable) ==
    [play_sound_on_install |-> TRUE, sound_theme |-> "default",
     auto_make_executable |-> auto_make_executable]

\* SettingsManager.auto_make_executable, settings.py lines 59-61
auto_make_executable(settings) == settings.auto_make_executable

\* the bundles parsed under either value of the setting: a valid tree, with every
\* outcome of the permission change and of the extraction
SettingsBundles ==
    {Bundle(p, TRUE, x, c, r, Tree(<<FullEntry>>, <<>>, [k \in {<<"c">>} |-> {"root.png"}]))
        @@ [settings |-> AppSettings(v)] :
        p \in AppImagePaths, x \in BOOLEAN, c \in {"ok", "PermissionError", "OSError"},
        r \in {"exit 0", "exit 1", "OSError"}, v \in BOOLEAN}

InitSettings ==
    /\ registry_file = NoFile
    /\ LedgerInit
    /\ parsed \in {[pc |-> "new", bundle |-> b] : b \in SettingsBundles}
    /\ fs = EmptyFs
    /\ inst = [k \in Instances |-> NoInstaller]
    /\ now = 0
    /\ ninstalls = 0
    /\ CallerInit

SpecSettings == InitSettings /\ [][NextParse]_vars

\* C16: for a bundle without the execute permission, parse sets the permission
\* before the extraction when auto_make_executable is true, and fails at once,
\* leaving the permission unset, when the setting is false.
C16_ExecutableBitFollowsSetting ==
    (ParseOver /\ ~parsed.bundle.executable) =>
        /\ (auto_make_executable(parsed.bundle.settings) /\ parsed.bundle.chmod = "ok") =>
              parsed.out.executable
        /\ ~auto_make_executable(parsed.bundle.settings) =>
              parsed.pc = "raised" /\ ~parsed.out.executable

\* what the code does: the permission is set whenever it can be, whatever the setting
C16_ExecutableBitSetRegardless ==
    (ParseOver /\ ~parsed.bundle.executable) =>
        (parsed.out.executable <=> parsed.bundle.chmod = "ok")

\* a parse that returned, having made the bundle executable, with the setting false
C16_ReachedIgnoredSetting ==
    /\ parsed.pc = "returned"
    /\ ~parsed.bundle.executable
    /\ ~auto_make_executable(parsed.bundle.settings)
    /\ parsed.out.executable

(***************************************************************************)
(* Failed extractions (specification SpecExtract).                         *)
(***************************************************************************)
\* what an extraction run may have written to its error stream
ErrorStreams == {<<>>, <<"E">>, <<"n", "o", " ", "A">>}

\* bundles that exist, in every environment outcome, with an error stream
ExtractBundles ==
    {Bundle(p, TRUE, x, c, r, Tree(<<FullEntry>>, <<>>, [k \in {<<"c">>} |-> {"root.png"}]))
        @@ [stderr |-> s] :
        p \in AppImagePaths, x \in BOOLEAN, c \in {"ok", "PermissionError", "OSError"},
        r \in {"exit 0", "exit 1", "OSError"}, s \in ErrorStreams}

InitExtract ==
    /\ registry_file = NoFile
    /\ LedgerInit
    /\ parsed \in {[pc |-> "new", bundle |-> b] : b \in ExtractBundles}
    /\ fs = EmptyFs
    /\ inst = [k \in Instances |-> NoInstaller]
    /\ now = 0
    /\ ninstalls = 0
    /\ CallerInit

SpecExtract == InitExtract /\ [][NextParse]_vars

\* the extraction of the bundle was run and exited with an error code
ExtractionExitedNonZero(bundle) ==
    /\ bundle.exists
    /\ bundle.executable \/ bundle.chmod = "ok"
    /\ bundle.extract = "exit 1"

\* C25: when the self-extraction exits non-zero, parse raises an error whose message
\* carries the captured error stream, and the temporary directory made for that
\* parse is still there (parse does not remove it).
C25_ExtractionFailureKeepsTempDir ==
    (parsed.pc \in {"returned", "raised"} /\ parsed.at = "parse"
        /\ ExtractionExitedNonZero(parsed.bundle)) =>
        /\ parsed.pc = "raised"
        /\ parsed.out.exc = "RuntimeError"
        /\ parsed.out.msg = "Failed to extract AppImage"
        /\ parsed.out.detail = parsed.bundle.stderr
        /\ parsed.out.temp_dir
        /\ "info" \notin DOMAIN parsed.out

\* a parse of a bundle, made executable first, whose extraction exited with 1 and
\* wrote to its error stream
C25_Witness ==
    /\ parsed.pc = "raised"
    /\ parsed.at = "parse"
    /\ ~parsed.bundle.executable
    /\ ExtractionExitedNonZero(parsed.bundle)
    /\ parsed.bundle.stderr = <<"n", "o", " ", "A">>
    /\ parsed.out.detail = <<"n", "o", " ", "A">>
    /\ parsed.out.temp_dir

(***************************************************************************)
(* AppImageInstaller (specification SpecInstall).                          *)
(***************************************************************************)
\* ~/Applications and ~/.local/share/applications, lines 19-21
AppsDir == <<"/", "A">>
ApplicationsDir == <<"/", "a">>
DotDesktop == <<".", "d", "e", "s", "k", "t", "o", "p">>

\* the characters _sanitize_filename removes, line 85
Unsafe == {"<", ">", ":", "\"", "/", "\\", "|", "?", "*"}

_sanitize_filenameNoDefault(name) ==
    Strip(SelectSeq(name, LAMBDA c : c \notin Unsafe))

_sanitize_filenameKeepsColon(name) ==
    LET kept == SelectSeq(name, LAMBDA c : c \notin (Unsafe \ {":"}))
    IN  IF Strip(kept) # <<>> THEN Strip(kept)
        ELSE <<"A", "p", "p", "l", "i", "c", "a", "t", "i", "o", "n">>

\* _sanitize_filename, lines 82-88
_sanitize_filename(name) ==
    LET kept == SelectSeq(name, LAMBDA c : c \notin Unsafe)
    IN  IF Strip(kept) # <<>> THEN Strip(kept)
        ELSE <<"A", "p", "p", "l", "i", "c", "a", "t", "i", "o", "n">>

\* dir / name
Join(dir, name) == dir \o <<"/">> \o name

\* a directory after a file is written into it: a file of that name is replaced
PutFile(dir, name, content) ==
    {f \in dir : f.name # name} \cup {[name |-> name, content |-> content]}

\* the characters shlex.quote leaves unquoted (those of them the model uses)
ShellSafe == {"/", ".", "-", "_", "@", "%", "+", "=", ":", ",",
              "0", "1", "2", "3", "4", "5", "6", "7", "8", "9",
              "A", "B", "C", "a", "b", "c", "x", "y"}

RECURSIVE EscapeQuotes(_)
EscapeQuotes(s) ==
    IF s = <<>> THEN <<>>
    ELSE IF Head(s) = "'" THEN <<"'", "\"", "'", "\"", "'">> \o EscapeQuotes(Tail(s))
    ELSE <<Head(s)>> \o EscapeQuotes(Tail(s))

\* shlex.quote
ShlexQuote(s) ==
    IF s = <<>> THEN <<"'", "'">>
    ELSE IF \A i \in 1..Len(s) : s[i] \in ShellSafe THEN s
    ELSE <<"'">> \o EscapeQuotes(s) \o <<"'">>

\* sub in s
Contains(s, sub) ==
    \E i \in 0..(Len(s) - Len(sub)) : SubSeq(s, i + 1, i + Len(sub)) = sub

NoSandboxFlag == <<" ", "-", "-", "n", "o", "-", "s", "a", "n", "d", "b", "o", "x">>

_is_electron_appOnlyIfFailed(probe) ==
    IF probe.kind # "completed" \/ probe.returncode = 0 THEN FALSE
    ELSE LET stderr == Lower(probe.stderr) IN
         \/ Contains(stderr, <<"s", "a", "n", "d", "b", "o", "x">>)
         \/ Contains(stderr, <<"s", "e", "t", "u", "i", "d">>)
         \/ Contains(stderr, <<"n", "a", "m", "e", "s", "p", "a", "c", "e">>)

_is_electron_appCaseSensitive(probe) ==
    IF probe.kind # "completed" THEN FALSE
    ELSE \/ Contains(probe.stderr, <<"s", "a", "n", "d", "b", "o", "x">>)
         \/ Contains(probe.stderr, <<"s", "e", "t", "u", "i", "d">>)
         \/ Contains(probe.stderr, <<"n", "a", "m", "e", "s", "p", "a", "c", "e">>)

_is_electron_appFlagsUnfinished(probe) ==
    IF probe.kind # "completed" THEN TRUE
    ELSE LET stderr == Lower(probe.stderr) IN
         \/ Contains(stderr, <<"s", "a", "n", "d", "b", "o", "x">>)
         \/ Contains(stderr, <<"s", "e", "t", "u", "i", "d">>)
         \/ Contains(stderr, <<"n", "a", "m", "e", "s", "p", "a", "c", "e">>)

\* _is_electron_app, lines 108-135, on what the probe did: it completed with a
\* return code and an error stream, it timed out, or running it raised
_is_electron_app(probe) ==
    IF probe.kind # "completed" THEN FALSE
    ELSE LET stderr == Lower(probe.stderr) IN
         \/ Contains(stderr, <<"s", "a", "n", "d", "b", "o", "x">>)
         \/ Contains(stderr, <<"s", "e", "t", "u", "i", "d">>)
         \/ Contains(stderr, <<"n", "a", "m", "e", "s", "p", "a", "c", "e">>)

RECURSIVE JoinWith(_, _)
\* sep.join(items)
JoinWith(items, sep) ==
    IF items = <<>> THEN <<>>
    ELSE IF Len(items) = 1 THEN items[1].s
    ELSE items[1].s \o sep \o JoinWith(Tail(items), sep)

\* a line "key=value" of the launcher file; the header and the empty last line
\* have no value
Line(key, value) == <<key, value>>

DesktopEntryLinesFlagQuoted(appimage_path, info, is_electron) ==
    LET exec_path == IF is_electron THEN ShlexQuote(appimage_path \o NoSandboxFlag)
                     ELSE ShlexQuote(appimage_path)
    IN  <<Line("[Desktop Entry]", <<>>),
          Line("Name=", info.name.s),
          Line("Exec=", exec_path),
          Line("Icon=", info.icon_name.s),
          Line("Type=Application", <<>>),
          Line("Terminal=false", <<>>)>>
        \o (IF info.categories.items # <<>>
            THEN <<Line("Categories=", JoinWith(info.categories.items, <<";">>) \o <<";">>)>>
            ELSE <<>>)
        \o (IF info.comment.s # <<>> THEN <<Line("Comment=", info.comment.s)>> ELSE <<>>)
        \o <<Line("", <<>>)>>

DesktopEntryLinesAlwaysOptional(appimage_path, info, is_electron) ==
    LET exec_path == IF is_electron THEN ShlexQuote(appimage_path) \o NoSandboxFlag
                     ELSE ShlexQuote(appimage_path)
    IN  <<Line("[Desktop Entry]", <<>>),
          Line("Name=", info.name.s),
          Line("Exec=", exec_path),
          Line("Icon=", info.icon_name.s),
          Line("Type=Application", <<>>),
          Line("Terminal=false", <<>>),
          Line("Categories=", JoinWith(info.categories.items, <<";">>) \o <<";">>),
          Line("Comment=", info.comment.s),
          Line("", <<>>)>>

\* _create_desktop_entry, lines 152-170: the lines of the launcher file
DesktopEntryLines(appimage_path, info, is_electron) ==
    LET exec_path == IF is_electron THEN ShlexQuote(appimage_path) \o NoSandboxFlag
                     ELSE ShlexQuote(appimage_path)
    IN  <<Line("[Desktop Entry]", <<>>),
          Line("Name=", info.name.s),
          Line("Exec=", exec_path),
          Line("Icon=", info.icon_name.s),
          Line("Type=Application", <<>>),
          Line("Terminal=false", <<>>)>>
        \o (IF info.categories.items # <<>>
            THEN <<Line("Categories=", JoinWith(info.categories.items, <<";">>) \o <<";">>)>>
            ELSE <<>>)
        \o (IF info.comment.s # <<>> THEN <<Line("Comment=", info.comment.s)>> ELSE <<>>)
        \o <<Line("", <<>>)>>

\* the places of _find_icon whose file has the suffix .svg
SvgPlaces == {"root.svg", "hicolor/scalable.svg", "pixmaps.svg"}

\* _install_icon, lines 92-101: the directory and the name of the installed icon
IconTarget(icon_path, icon_name) ==
    IF icon_path.place \in SvgPlaces
    THEN [dir |-> "scalable/apps", name |-> icon_name \o <<".", "s", "v", "g">>]
    ELSE [dir |-> "128x128/apps", name |-> icon_name \o <<".", "p", "n", "g">>]

Digits == <<"0", "1", "2", "3", "4", "5", "6", "7", "8", "9">>

\* datetime.isoformat() of the clock value t: digits of fixed width
IsoFormat(t) == <<Digits[((t \div 10) % 10) + 1], Digits[(t % 10) + 1]>>

\* the InstalledApp of lines 59-69
InstalledRecord(appimage_src, info, clock) ==
    [name |-> info.name,
     version |-> IF info.version = PyNone \/ info.version = PyStr(<<>>)
                 THEN PyStr(<<"u", "n", "k", "n", "o", "w", "n">>) ELSE info.version,
     source_path |-> PyStr(appimage_src),
     install_path |-> PyStr(Join(AppsDir, PathName(appimage_src))),
     icon_name |-> info.icon_name,
     categories |-> info.categories,
     install_date |-> PyStr(IsoFormat(clock)),
     comment |-> info.comment,
     desktop_file |-> PyStr(Join(ApplicationsDir, _sanitize_filename(info.name.s) \o DotDesktop))]

\* what running the two cache-update commands does: both exit with 0, one exits
\* with 1, one is not installed, one is there but may not be executed
UpdateOutcomes == {"ok", "exit1", "FileNotFoundError", "PermissionError"}

\* _update_desktop_database, lines 179-201: the exception that leaves it, "none" when
\* it returns. Both runs pass check=False, and the one except clause names
\* FileNotFoundError.
_update_desktop_database(outcome) ==
    IF outcome \in {"ok", "exit1"} THEN "none"
    ELSE IF outcome = "FileNotFoundError" THEN "none"
    ELSE outcome

\* what the environment does to the steps of one install() call: the copy of the
\* bundle, the copy of the icon, the probe run of the installed bundle, the write of
\* the launcher file, the two cache-update commands and the write of the registry
Env(copy, icon, probe, write, update, save) ==
    [copy |-> copy, icon |-> icon, probe |-> probe, write |-> write,
     update |-> update, save |-> save]

Completed(returncode, stderr) ==
    [kind |-> "completed", returncode |-> returncode, stderr |-> stderr]

QuietProbe == Completed(0, <<>>)

SandboxProbe == Completed(1, <<"N", "o", " ", "S", "a", "n", "d", "b", "o", "x">>)

Probes ==
    {QuietProbe,
     SandboxProbe,
     Completed(0, <<"a", " ", "S", "e", "t", "U", "I", "D">>),
     Completed(0, <<"n", "a", "m", "e", "s", "p", "a", "c", "e", "s">>),
     Completed(1, <<"s", "a", "n", "d", " ", "b", "o", "x">>),
     Completed(1, <<>>),
     [kind |-> "timeout", returncode |-> 0, stderr |-> <<>>],
     [kind |-> "raised", returncode |-> 0, stderr |-> <<>>]}

InstallEnvs ==
    {Env("ok", "ok", p, "ok", "ok", "ok") : p \in {QuietProbe, SandboxProbe}}
        \cup {Env("ok", "ok", QuietProbe, "ok", u, "ok") :
                u \in {"FileNotFoundError", "PermissionError"}}
        \cup {Env("OSError", "ok", QuietProbe, "ok", "ok", "ok"),
              Env("ok", "OSError", QuietProbe, "ok", "ok", "ok"),
              Env("ok", "ok", QuietProbe, "OSError", "ok", "ok"),
              Env("ok", "ok", QuietProbe, "ok", "ok", "write_failed")}

installNoReplace(self, file, disk, appimage_path, info, env, clock) ==
    [exc |-> "none", at |-> "return",
     ret |-> InstalledRecord(appimage_path, info, clock),
     fs |-> disk,
     apps |-> Append(self, InstalledRecord(appimage_path, info, clock)),
     file |-> file, probes |-> 1]

installGoesOnAfterIconFailure(self, file, disk, appimage_path, info, env, clock) ==
    LET target_appimage == Join(AppsDir, PathName(appimage_path))
        safe_name == _sanitize_filename(info.name.s)
        raised(exc, at, d) == [exc |-> exc, at |-> at, ret |-> PyNone,
                               fs |-> d, apps |-> self, file |-> file,
                               probes |-> IF at \in {"copy2", "_install_icon"} THEN 0 ELSE 1]
        copied == [disk EXCEPT !.apps_dir =
                      PutFile(@, PathName(appimage_path),
                              [bytes |-> appimage_path, mode |-> "0o755"])]
        target_icon == IconTarget(info.icon_path, info.icon_name.s)
        with_icon == IF info.icon_path = PyNone \/ env.icon # "ok" THEN copied
                     ELSE [copied EXCEPT !.icons_dir =
                              PutFile(@, target_icon, [bytes |-> info.icon_path])]
        lines == DesktopEntryLines(target_appimage, info, _is_electron_app(env.probe))
        with_desktop == [with_icon EXCEPT !.applications_dir =
                            PutFile(@, safe_name \o DotDesktop,
                                    [lines |-> lines, mode |-> "0o644"])]
        installed_app == InstalledRecord(appimage_path, info, clock)
        after == add(self, installed_app)
    IN  IF env.copy # "ok" THEN raised(env.copy, "copy2", disk)
        ELSE IF env.write # "ok" THEN raised(env.write, "_create_desktop_entry", with_icon)
        ELSE IF _update_desktop_database(env.update) # "none"
        THEN raised(_update_desktop_database(env.update), "_update_desktop_database",
                    with_desktop)
        ELSE IF env.save # "ok"
        THEN [exc |-> "OSError", at |-> "registry.add", ret |-> PyNone,
              fs |-> with_desktop, apps |-> after,
              file |-> _save_registry(file, after, env.save), probes |-> 1]
        ELSE [exc |-> "none", at |-> "return", ret |-> installed_app,
              fs |-> with_desktop, apps |-> after,
              file |-> _save_registry(file, after, env.save), probes |-> 1]

installRegistersFirst(self, file, disk, appimage_path, info, env, clock) ==
    LET installed_app == InstalledRecord(appimage_path, info, clock)
        after == add(self, installed_app)
        copied == [disk EXCEPT !.apps_dir =
                      PutFile(@, PathName(appimage_path),
                              [bytes |-> appimage_path, mode |-> "0o755"])]
    IN  IF env.save # "ok"
        THEN [exc |-> "OSError", at |-> "registry.add", ret |-> PyNone,
              fs |-> disk, apps |-> after, file |-> _save_registry(file, after, env.save),
              probes |-> 0]
        ELSE IF env.copy # "ok"
        THEN [exc |-> env.copy, at |-> "copy2", ret |-> PyNone,
              fs |-> disk, apps |-> after, file |-> _save_registry(file, after, env.save),
              probes |-> 0]
        ELSE [exc |-> "OSError", at |-> "_create_desktop_entry", ret |-> PyNone,
              fs |-> copied, apps |-> after, file |-> _save_registry(file, after, env.save),
              probes |-> 1]

\* install(appimage_path, info), lines 25-80, by an installer whose registry holds
\* the list self, on the registry file and the directories disk, at the time clock;
\* probes is the number of times the call has run the installed bundle as a probe
install(self, file, disk, appimage_path, info, env, clock) ==
    LET target_appimage == Join(AppsDir, PathName(appimage_path))
        safe_name == _sanitize_filename(info.name.s)
        raised(exc, at, d) == [exc |-> exc, at |-> at, ret |-> PyNone,
                               fs |-> d, apps |-> self, file |-> file,
                               probes |-> IF at \in {"copy2", "_install_icon"} THEN 0 ELSE 1]
        copied == [disk EXCEPT !.apps_dir =
                      PutFile(@, PathName(appimage_path),
                              [bytes |-> appimage_path, mode |-> "0o755"])]
        target_icon == IconTarget(info.icon_path, info.icon_name.s)
        with_icon == IF info.icon_path = PyNone THEN copied
                     ELSE [copied EXCEPT !.icons_dir =
                              PutFile(@, target_icon, [bytes |-> info.icon_path])]
        lines == DesktopEntryLines(target_appimage, info, _is_electron_app(env.probe))
        with_desktop == [with_icon EXCEPT !.applications_dir =
                            PutFile(@, safe_name \o DotDesktop,
                                    [lines |-> lines, mode |-> "0o644"])]
        installed_app == InstalledRecord(appimage_path, info, clock)
        after == add(self, installed_app)
    IN  IF env.copy # "ok" THEN raised(env.copy, "copy2", disk)
        ELSE IF info.icon_path # PyNone /\ env.icon # "ok"
        THEN raised(env.icon, "_install_icon", copied)
        ELSE IF env.write # "ok" THEN raised(env.write, "_create_desktop_entry", with_icon)
        ELSE IF _update_desktop_database(env.update) # "none"
        THEN raised(_update_desktop_database(env.update), "_update_desktop_database",
                    with_desktop)
        ELSE IF env.save # "ok"
        THEN [exc |-> "OSError", at |-> "registry.add", ret |-> PyNone,
              fs |-> with_desktop, apps |-> after,
              file |-> _save_registry(file, after, env.save), probes |-> 1]
        ELSE [exc |-> "none", at |-> "return", ret |-> installed_app,
              fs |-> with_desktop, apps |-> after,
              file |-> _save_registry(file, after, env.save), probes |-> 1]

\* an AppImageInfo as parse() returns it, in the fields install() reads
Info(name, icon_name, icon_path, categories, comment) ==
    [name |-> PyStr(name), version |-> PyNone, icon_name |-> PyStr(icon_name),
     icon_path |-> icon_path, categories |-> PyList(categories),
     comment |-> PyStr(comment)]

\* the descriptors installed: a full one, one whose display name differs from the
\* first by an unsafe character only, and one with an empty name and a vector icon
InstallInfos ==
    {Info(<<"A">>, <<"c">>, PyPath("root.png", <<"c">>),
          <<PyStr(<<"A">>), PyStr(<<"B">>)>>, <<"c">>),
     Info(<<"A", ":">>, <<"c">>, PyNone, <<>>, <<>>),
     Info(<<>>, <<"b">>, PyPath("root.svg", <<"b">>), <<>>, <<>>)}

\* a record an earlier run left at the path the first bundle is installed to
SeedInstalled ==
    MakeApp(<<"B">>, Join(AppsDir, <<"x", ".", "A">>), <<"0", "0">>, TRUE)

InitInstall ==
    /\ registry_file \in {NoFile, FileWith(RegistryText(<<SeedInstalled, SeedC>>))}
    /\ LedgerInit
    /\ OtherInit

\* AppImageInstaller.__init__, lines 17-23: a new installer object k, whose registry
\* is a new InstalledAppsManager
NewInstaller(k) ==
    /\ LET r == _load_registry(registry_file) IN
       /\ mgr' = [mgr EXCEPT ![k] = [state |-> IF r.exc = "none" THEN "ready" ELSE "raised",
                                     apps |-> r.apps,
                                     exc |-> r.exc]]
       /\ inst' = [inst EXCEPT ![k] = IF r.exc = "none" THEN [pc |-> "idle"]
                                      ELSE [pc |-> "none"]]
       /\ last' = [op |-> "init", inst |-> k, file |-> registry_file]
    /\ UNCHANGED <<registry_file, lastMut, nops, parsed, fs, now, ninstalls>>
    /\ UNCHANGED callerVars

\* install(appimage_path, info), lines 25-80; the clock has advanced by tick since
\* it was last read; prior is what the installer's previous install() call did
Install(k, appimage_path, info, env, tick) ==
    /\ inst[k].pc # "none"
    /\ ninstalls < MaxInstalls
    /\ LET r == install(mgr[k].apps, registry_file, fs, appimage_path, info, env, now + tick)
           call == [op |-> "install", inst |-> k, appimage_path |-> appimage_path,
                    info |-> info, env |-> env, before |-> mgr[k].apps,
                    exc |-> r.exc, at |-> r.at, ret |-> r.ret, probes |-> r.probes,
                    prior |-> IF inst[k].pc = "idle" THEN NoCall
                              ELSE [op |-> "install",
                                    appimage_path |-> inst[k].call.appimage_path,
                                    info |-> inst[k].call.info,
                                    exc |-> inst[k].call.exc,
                                    ret |-> inst[k].call.ret]]
       IN  /\ mgr' = [mgr EXCEPT ![k].apps = r.apps]
           /\ registry_file' = r.file
           /\ fs' = r.fs
           /\ inst' = [inst EXCEPT ![k] = [pc |-> IF r.exc = "none" THEN "returned"
                                                  ELSE "raised",
                                           call |-> call]]
           /\ last' = call
    /\ now' = now + tick
    /\ ninstalls' = ninstalls + 1
    /\ UNCHANGED <<lastMut, nops, parsed>>
    /\ UNCHANGED callerVars

NextInstall ==
    \/ NewInstaller(1)
    \/ \E p \in AppImagePaths, info \in InstallInfos, env \in InstallEnvs, tick \in {0, 1} :
          Install(1, p, info, env, tick)
    \/ GetAll(1)

SpecInstall == InitInstall /\ [][NextInstall]_vars

(***************************************************************************)
(* One install under any display name (specification SpecNames).           *)
(***************************************************************************)
\* the characters of the display names installed: the unsafe ones, a letter, a blank
NameChars == Unsafe \cup {"A", " "}

\* every display name of at most MaxNameLen characters
DisplayNames == UNION {[1..n -> NameChars] : n \in 0..MaxNameLen}

\* an environment in which every step of install succeeds and the probe is quiet
CalmEnv == Env("ok", "ok", QuietProbe, "ok", "ok", "ok")

\* one install() call per run, of either bundle, under any display name
NextNames ==
    \/ NewInstaller(1)
    \/ /\ ninstalls = 0
       /\ \E p \in AppImagePaths, name \in DisplayNames :
             Install(1, p, Info(name, <<"c">>, PyNone, <<>>, <<>>), CalmEnv, 1)

SpecNames == InitInstall /\ [][NextNames]_vars

(***************************************************************************)
(* The launcher file of one install (specification SpecLauncher).          *)
(***************************************************************************)
\* source paths whose file names have a blank, a single quote, or neither
LauncherPaths ==
    {<<"/", "x", ".", "A">>, <<"/", "a", "/", "x", " ", "b", ".", "A">>,
     <<"/", "x", "'", "b", ".", "A">>, <<"/", "'", " ", "'">>}

\* descriptors with and without categories, comment and icon
LauncherInfos ==
    {Info(<<"A", " ", "b">>, <<"c">>, icon, cats, comment) :
        icon \in {PyNone, PyPath("root.svg", <<"c">>)},
        cats \in {<<>>, <<PyStr(<<"A">>)>>, <<PyStr(<<"A">>), PyStr(<<"B">>)>>},
        comment \in {<<>>, <<"c", " ", "c">>}}

\* one install() call per run, every step of which succeeds, with any probe outcome
NextLauncher ==
    \/ NewInstaller(1)
    \/ /\ ninstalls = 0
       /\ \E p \in LauncherPaths, info \in LauncherInfos, probe \in Probes :
             Install(1, p, info, Env("ok", "ok", probe, "ok", "ok", "ok"), 1)

SpecLauncher == InitInstall /\ [][NextLauncher]_vars

(***************************************************************************)
(* One install in any environment (specification SpecSteps).               *)
(***************************************************************************)
\* every combination of outcomes of the steps of install
StepEnvs ==
    {Env(copy, icon, probe, write, update, save) :
        copy \in {"ok", "OSError"}, icon \in {"ok", "OSError"},
        probe \in {QuietProbe, SandboxProbe}, write \in {"ok", "OSError"},
        update \in UpdateOutcomes,
        save \in WriteOutcomes}

\* one install() call per run, of any descriptor, in any environment
NextSteps ==
    \/ NewInstaller(1)
    \/ /\ ninstalls = 0
       /\ \E p \in AppImagePaths, info \in InstallInfos, env \in StepEnvs :
             Install(1, p, info, env, 1)

SpecSteps == InitInstall /\ [][NextSteps]_vars

(***************************************************************************)
(* Claims about the installer (specification SpecInstall).                 *)
(***************************************************************************)
\* the install() call c returned and so did the same installer's call before it,
\* which had a source of the same file name and a descriptor of the same name
SecondInstallOfSame(c) ==
    /\ c.exc = "none"
    /\ c.prior.op = "install"
    /\ c.prior.exc = "none"
    /\ PathName(c.prior.appimage_path) = PathName(c.appimage_path)
    /\ c.prior.info.name = c.info.name

\* a get_all() call of an installer's registry after that installer's last install()
InstalledThenListed ==
    /\ last.op = "get_all"
    /\ inst[last.inst].pc = "returned"

\* C7: after two successful installs of the same bundle under the same display
\* name, get_all() holds exactly one record whose install_path is the path of the
\* copied bundle, and that record is the one the second install returned.
C7_ReinstallReplacesEntry ==
    (InstalledThenListed /\ SecondInstallOfSame(inst[last.inst].call)) =>
        LET c == inst[last.inst].call
            target == PyStr(Join(AppsDir, PathName(c.appimage_path)))
            M == {i \in 1..Len(last.ret) : last.ret[i].install_path = target}
        IN  /\ Cardinality(M) = 1
            /\ \A i \in M : last.ret[i] = c.ret

\* the listing after a second install, made at a later time than the first, into a
\* ledger that holds a record of another path as well
C7_Witness ==
    /\ InstalledThenListed
    /\ SecondInstallOfSame(inst[last.inst].call)
    /\ inst[last.inst].call.prior.ret # inst[last.inst].call.ret
    /\ inst[last.inst].call.prior.ret \in
          {inst[last.inst].call.before[i] : i \in 1..Len(inst[last.inst].call.before)}
    /\ Len(last.ret) >= 2

\* the install() call that just returned
Installed == last.op = "install" /\ last.exc = "none"

\* name without the suffix .desktop
LauncherBase(name) == SubSeq(name, 1, Len(name) - Len(DotDesktop))

\* C17: the launcher file written by an install has a name, before its suffix
\* .desktop, that holds none of < > : " / \ | ? * and is not empty, and that is
\* "Application" when the display name holds nothing but such characters and
\* blanks; the copied bundle has the name of the source file.
C17_LauncherNameSafeBundleNameKept ==
    Installed =>
        /\ \E f \in fs.applications_dir :
              /\ last.ret.desktop_file = PyStr(Join(ApplicationsDir, f.name))
              /\ Len(f.name) > Len(DotDesktop)
              /\ SubSeq(f.name, Len(f.name) - Len(DotDesktop) + 1, Len(f.name)) = DotDesktop
              /\ \A i \in 1..Len(LauncherBase(f.name)) :
                    LauncherBase(f.name)[i] \notin {"<", ">", ":", "\"", "/", "\\", "|", "?", "*"}
              /\ (\A i \in 1..Len(last.info.name.s) :
                     last.info.name.s[i] \in {"<", ">", ":", "\"", "/", "\\", "|", "?", "*", " "})
                    => LauncherBase(f.name) =
                          <<"A", "p", "p", "l", "i", "c", "a", "t", "i", "o", "n">>
        /\ \E g \in fs.apps_dir :
              /\ g.name = PathName(last.appimage_path)
              /\ last.ret.install_path = PyStr(Join(AppsDir, g.name))

\* an install under a display name of an unsafe character and a blank, and one
\* under a name with an unsafe character before a letter
C17_Witness ==
    /\ Installed
    /\ last.info.name.s = <<":", " ">>
    /\ \E f \in fs.applications_dir :
          LauncherBase(f.name) = <<"A", "p", "p", "l", "i", "c", "a", "t", "i", "o", "n">>

C17_WitnessRemoved ==
    /\ Installed
    /\ last.info.name.s = <<"*", "A">>
    /\ last.appimage_path = <<"/", "a", "/", "y", "-", "1", ".", "0", ".", "A">>
    /\ \E f \in fs.applications_dir : LauncherBase(f.name) = <<"A">>
    /\ \E g \in fs.apps_dir : g.name = <<"y", "-", "1", ".", "0", ".", "A">>

(***************************************************************************)
(* Claims about the launcher file (specification SpecLauncher).            *)
(***************************************************************************)
RECURSIVE Words(_, _, _, _)
\* the words a POSIX shell reads from the command s: blanks separate words outside
\* quotes, single and double quotes group characters and are removed; mode is the
\* quoting under way, cur the word under way, open whether a word is under way
Words(s, mode, cur, open) ==
    IF s = <<>> THEN (IF open THEN <<cur>> ELSE <<>>)
    ELSE LET c == Head(s)
             r == Tail(s)
         IN  CASE mode = "plain" /\ c = " " ->
                    (IF open THEN <<cur>> ELSE <<>>) \o Words(r, "plain", <<>>, FALSE)
               [] mode = "plain" /\ c = "'" -> Words(r, "single", cur, TRUE)
               [] mode = "plain" /\ c = "\"" -> Words(r, "double", cur, TRUE)
               [] mode = "plain" /\ c \notin {" ", "'", "\""} ->
                    Words(r, "plain", Append(cur, c), TRUE)
               [] mode = "single" /\ c = "'" -> Words(r, "plain", cur, TRUE)
               [] mode = "single" /\ c # "'" -> Words(r, "single", Append(cur, c), TRUE)
               [] mode = "double" /\ c = "\"" -> Words(r, "plain", cur, TRUE)
               [] mode = "double" /\ c # "\"" -> Words(r, "double", Append(cur, c), TRUE)

ShellWords(s) == Words(s, "plain", <<>>, FALSE)

\* the lines of the launcher file that the install() call that just returned wrote
LauncherLines ==
    LET f == CHOOSE f \in fs.applications_dir :
                 last.ret.desktop_file = PyStr(Join(ApplicationsDir, f.name))
    IN  f.content.lines

\* the flag, as the shell reads it
FlagWord == <<"-", "-", "n", "o", "-", "s", "a", "n", "d", "b", "o", "x">>

\* C18: the launcher file is, in this order, the header, Name=, Exec= with a command
\* that a shell reads as the install path alone or as the install path and the
\* flag --no-sandbox, Icon=, Type=Application, Terminal=false, a Categories= line
\* of the categories each followed by a semicolon only when there are categories,
\* a Comment= line only when the comment is not empty, and an empty last line.
C18_LauncherLinesInOrder ==
    Installed =>
        LET L == LauncherLines
            info == last.info
            cats == info.categories.items
            hasCats == cats # <<>>
            hasComment == info.comment.s # <<>>
            n == 6 + (IF hasCats THEN 1 ELSE 0) + (IF hasComment THEN 1 ELSE 0)
        IN  /\ Len(L) = n + 1
            /\ L[1] = <<"[Desktop Entry]", <<>>>>
            /\ L[2] = <<"Name=", info.name.s>>
            /\ L[3][1] = "Exec="
            /\ ShellWords(L[3][2]) \in {<<last.ret.install_path.s>>,
                                        <<last.ret.install_path.s, FlagWord>>}
            /\ L[4] = <<"Icon=", info.icon_name.s>>
            /\ L[5] = <<"Type=Application", <<>>>>
            /\ L[6] = <<"Terminal=false", <<>>>>
            /\ hasCats =>
                  /\ L[7][1] = "Categories="
                  /\ Split(L[7][2], ";") = [i \in 1..(Len(cats) + 1) |->
                                               IF i <= Len(cats) THEN cats[i].s ELSE <<>>]
            /\ hasComment => L[n] = <<"Comment=", info.comment.s>>
            /\ L[n + 1] = <<"", <<>>>>

\* an install of a bundle whose file name has a blank and a quote, with two
\* categories, a comment and the flag; and one with none of the three
C18_Witness ==
    /\ Installed
    /\ last.appimage_path = <<"/", "'", " ", "'">>
    /\ Len(LauncherLines) = 9
    /\ Len(ShellWords(LauncherLines[3][2])) = 2
    /\ LauncherLines[3][2] # last.ret.install_path.s \o NoSandboxFlag
    /\ Len(last.info.categories.items) = 2

C18_WitnessBare ==
    /\ Installed
    /\ Len(LauncherLines) = 7
    /\ LauncherLines[3][2] = last.ret.install_path.s

\* the words looked for in the error stream of the probe
SandboxWords ==
    {<<"s", "a", "n", "d", "b", "o", "x">>, <<"s", "e", "t", "u", "i", "d">>,
     <<"n", "a", "m", "e", "s", "p", "a", "c", "e">>}

\* the characters c and w are the same letter, in either case
SameLetter(c, w) ==
    \/ c = w
    \/ \E k \in 1..Len(UpperCase) :
          {c, w} = {UpperCase[k], LowerCase[k]}

\* the text holds the word at some position, letter case aside
Mentions(text, word) ==
    \E i \in 0..(Len(text) - Len(word)) :
        \A j \in 1..Len(word) : SameLetter(text[i + j], word[j])

\* the command ends with the flag
EndsWithFlag(command) ==
    /\ Len(command) >= Len(NoSandboxFlag)
    /\ SubSeq(command, Len(command) - Len(NoSandboxFlag) + 1, Len(command)) = NoSandboxFlag

\* C19: the Exec command of the launcher file ends with --no-sandbox exactly when
\* the probe ran to its end and its error stream holds, letter case aside, one of
\* sandbox, setuid and namespace, whatever its exit code; after a probe with an
\* empty error stream the flag is absent.
C19_FlagIffProbeMentionsSandbox ==
    Installed =>
        /\ EndsWithFlag(LauncherLines[3][2]) <=>
              /\ last.env.probe.kind = "completed"
              /\ \E w \in SandboxWords : Mentions(last.env.probe.stderr, w)
        /\ (last.env.probe.kind = "completed" /\ last.env.probe.stderr = <<>>) =>
              ~EndsWithFlag(LauncherLines[3][2])

\* an install whose probe exited with 0 and wrote SetUID in mixed case, with the
\* flag; one whose probe failed without any of the words, without the flag
C19_Witness ==
    /\ Installed
    /\ last.env.probe.kind = "completed"
    /\ last.env.probe.returncode = 0
    /\ last.env.probe.stderr = <<"a", " ", "S", "e", "t", "U", "I", "D">>
    /\ EndsWithFlag(LauncherLines[3][2])

C19_WitnessFailedClean ==
    /\ Installed
    /\ last.env.probe.kind = "completed"
    /\ last.env.probe.returncode = 1
    /\ last.env.probe.stderr # <<>>
    /\ ~EndsWithFlag(LauncherLines[3][2])

C19_WitnessTimeout ==
    /\ Installed
    /\ last.env.probe.kind = "timeout"
    /\ ~EndsWithFlag(LauncherLines[3][2])

(***************************************************************************)
(* Claims about the steps of install (specification SpecSteps).            *)
(***************************************************************************)
\* what the one install() call of the run has left: the bundle in ~/Applications,
\* an icon in the icon theme, a launcher file, a record in the installer's ledger
Copied == \E g \in fs.apps_dir : g.name = PathName(last.appimage_path)

IconInstalled == fs.icons_dir # {}

LauncherWritten == fs.applications_dir # {}

Registered ==
    \E i \in 1..Len(mgr[last.inst].apps) :
        /\ mgr[last.inst].apps[i].name = last.info.name
        /\ mgr[last.inst].apps[i].source_path = PyStr(last.appimage_path)

Failed == last.exc # "none"

\* the steps that fail in the environment of the call, in their order; the icon
\* step is there only when an icon was resolved, and update commands that are not
\* installed or exit with an error code do not count as a failure
FailingSteps ==
    LET env == last.env IN
    SelectSeq(<<"copy", "icon", "launcher", "update", "register">>,
              LAMBDA s :
                  \/ s = "copy" /\ env.copy # "ok"
                  \/ s = "icon" /\ last.info.icon_path # PyNone /\ env.icon # "ok"
                  \/ s = "launcher" /\ env.write # "ok"
                  \/ s = "update" /\ env.update \notin {"ok", "exit1", "FileNotFoundError"}
                  \/ s = "register" /\ env.save # "ok")

\* the steps that come before step s
Before(s) ==
    CASE s = "copy" -> {}
      [] s = "icon" -> {"copy"}
      [] s = "launcher" -> {"copy", "icon"}
      [] s = "update" -> {"copy", "icon", "launcher"}
      [] s = "register" -> {"copy", "icon", "launcher", "update"}

\* the steps whose effect is there after the call
Done ==
    {s \in {"copy", "icon", "launcher", "register"} :
        \/ s = "copy" /\ Copied
        \/ s = "icon" /\ IconInstalled
        \/ s = "launcher" /\ LauncherWritten
        \/ s = "register" /\ Registered}

\* C20: an install goes forward through copy, icon (only when an icon was resolved),
\* launcher, register: a step has run only if the steps before it are done, the
\* record is in the ledger only after the copy, the icon copy and the launcher
\* write, the call fails when a step fails, and no step after the first failing one
\* has run (the failing step itself may have: a failed registry write leaves the
\* record in the ledger in memory).
C20_StepsForwardFailureStops ==
    last.op = "install" =>
        /\ IconInstalled => (Copied /\ last.info.icon_path # PyNone)
        /\ LauncherWritten => (Copied /\ (last.info.icon_path # PyNone => IconInstalled))
        /\ Registered => (Copied /\ LauncherWritten
                          /\ (last.info.icon_path # PyNone => IconInstalled))
        /\ Failed <=> FailingSteps # <<>>
        /\ ~Failed => (Registered /\ last.ret \in
                          {mgr[last.inst].apps[i] : i \in 1..Len(mgr[last.inst].apps)})
        /\ FailingSteps # <<>> =>
              \A s \in Done : s \in Before(FailingSteps[1]) \cup {FailingSteps[1]}

\* an install with an icon that failed at the launcher write although the registry
\* write would have failed too: bundle and icon are there, launcher and record not
C20_Witness ==
    /\ last.op = "install"
    /\ Failed
    /\ Len(FailingSteps) >= 2
    /\ FailingSteps[1] = "launcher"
    /\ Done = {"copy", "icon"}

\* an install that went through all four steps, and one without icon through three
C20_WitnessAll ==
    /\ last.op = "install"
    /\ ~Failed
    /\ Done = {"copy", "icon", "launcher", "register"}

C20_WitnessNoIcon ==
    /\ last.op = "install"
    /\ ~Failed
    /\ last.env.icon # "ok"
    /\ Done = {"copy", "launcher", "register"}

(***************************************************************************)
(* Claims about what a failed install leaves (specification SpecSteps).    *)
(***************************************************************************)
\* the three steps of install that write files below the home directory
FileSteps == {"copy2", "_install_icon", "_create_desktop_entry"}

\* the step is an install() call
InstallStep == ninstalls' = ninstalls + 1

\* every file of directory dir before the step is still there after it, under its
\* name (a copy over an existing file replaces its content)
FilesKept(dir) == \A f \in fs[dir] : \E g \in fs'[dir] : g.name = f.name

\* C21: an install that fails at the bundle copy, the icon copy or the launcher
\* write raises that step's error to the caller, leaves the ledger as it was in
\* memory and on disk, and leaves every file of the steps already completed (the
\* copied bundle, the installed icon) and every earlier file in place.
C21_FileStepFailureKeepsLedgerAndFiles ==
    [][(InstallStep /\ last'.at \in FileSteps) =>
          /\ last'.exc = "OSError"
          /\ last'.ret = PyNone
          /\ inst'[last'.inst].pc = "raised"
          /\ mgr'[last'.inst].apps = mgr[last'.inst].apps
          /\ registry_file' = registry_file
          /\ \A dir \in DOMAIN fs : FilesKept(dir)
          /\ last'.at = "copy2" => fs' = fs
          /\ last'.at # "copy2" =>
                \E g \in fs'.apps_dir :
                    /\ g.name = PathName(last'.appimage_path)
                    /\ g.content.bytes = last'.appimage_path
          /\ (last'.at = "_create_desktop_entry" /\ last'.info.icon_path # PyNone) =>
                \E g \in fs'.icons_dir : g.content.bytes = last'.info.icon_path
          /\ fs'.applications_dir = fs.applications_dir]_vars

\* an install with an icon failed at the launcher write over a ledger file that
\* holds records: bundle and icon are there, no launcher, the file as it was
C21_Witness ==
    /\ last.op = "install"
    /\ last.at = "_create_desktop_entry"
    /\ last.exc = "OSError"
    /\ last.info.icon_path # PyNone
    /\ Copied
    /\ IconInstalled
    /\ ~LauncherWritten
    /\ mgr[last.inst].apps = last.before
    /\ last.before # <<>>
    /\ registry_file = FileWith(RegistryText(last.before))

\* an install failed at the icon copy: the bundle is there, nothing else
C21_WitnessIcon ==
    /\ last.op = "install"
    /\ last.at = "_install_icon"
    /\ Copied
    /\ ~IconInstalled
    /\ ~LauncherWritten

\* an install failed at the bundle copy: nothing is there
C21_WitnessCopy ==
    /\ last.op = "install"
    /\ last.at = "copy2"
    /\ fs = EmptyFs

(***************************************************************************)
(* Claims about a probe that does not finish (specification SpecLauncher). *)
(***************************************************************************)
\* the probe of the call timed out, or running it raised
ProbeUnfinished == last.env.probe.kind \in {"timeout", "raised"}

\* C22: a probe that times out or raises counts as not detected: the install goes
\* on, writes the launcher with the quoted path alone as its command (no
\* --no-sandbox), registers the record and returns it; and no install runs the
\* probe more than once.
C22_UnfinishedProbeIsNotDetected ==
    last.op = "install" =>
        /\ last.probes <= 1
        /\ ProbeUnfinished =>
              /\ last.exc = "none"
              /\ last.probes = 1
              /\ LauncherWritten
              /\ ~EndsWithFlag(LauncherLines[3][2])
              /\ LauncherLines[3][2] =
                    ShlexQuote(Join(AppsDir, PathName(last.appimage_path)))
              /\ Registered
              /\ inst[last.inst].pc = "returned"

\* an install whose probe could not be run at all, registered without the flag
C22_Witness ==
    /\ last.op = "install"
    /\ last.env.probe.kind = "raised"
    /\ last.probes = 1
    /\ Registered
    /\ ShellWords(LauncherLines[3][2]) = <<Join(AppsDir, PathName(last.appimage_path))>>

\* the same after a probe that ran into the timeout
C22_WitnessTimedOut ==
    /\ last.op = "install"
    /\ last.env.probe.kind = "timeout"
    /\ last.probes = 1
    /\ Registered
    /\ last.ret # PyNone

(***************************************************************************)
(* Claims about the cache-update step (specification SpecSteps).           *)
(***************************************************************************)
\* the call came as far as the cache-update step: bundle, icon and launcher were
\* written
ReachedUpdate ==
    /\ last.op = "install"
    /\ last.env.copy = "ok"
    /\ last.info.icon_path # PyNone => last.env.icon = "ok"
    /\ last.env.write = "ok"

\* C23: the cache-update step never makes an install fail: whether a command is
\* not installed, cannot be executed or exits with an error code, the step returns
\* and the install goes on to register the record (and returns it when the
\* registry can be written).
C23_RefreshNeverFailsInstall ==
    ReachedUpdate =>
        /\ last.at # "_update_desktop_database"
        /\ Registered
        /\ last.env.save = "ok" => last.exc = "none"

\* what the code does: of the three, a command that is not installed and a command
\* that exits with an error code are passed over; any other error of running a
\* command leaves install, before the record is registered
C23_RefreshFailsOnlyWhenNotRunnable ==
    ReachedUpdate =>
        /\ last.env.update \in {"ok", "exit1", "FileNotFoundError"} =>
              /\ last.at # "_update_desktop_database"
              /\ Registered
              /\ last.env.save = "ok" => last.exc = "none"
        /\ last.env.update = "PermissionError" =>
              /\ last.at = "_update_desktop_database"
              /\ last.exc = "PermissionError"
              /\ ~Registered
              /\ mgr[last.inst].apps = last.before
              /\ LauncherWritten

\* installs that went on after a missing command and after an error exit
C23_ReachedMissing ==
    /\ ReachedUpdate
    /\ last.env.update = "FileNotFoundError"
    /\ last.exc = "none"
    /\ Registered

C23_ReachedErrorExit ==
    /\ ReachedUpdate
    /\ last.env.update = "exit1"
    /\ last.exc = "none"
    /\ Registered

\* an install that failed at a command that may not be executed
C23_ReachedNotExecutable ==
    /\ ReachedUpdate
    /\ last.env.update = "PermissionError"
    /\ last.exc = "PermissionError"
    /\ ~Registered

(***************************************************************************)
(* Claims about two ledger instances on one file (specification Spec).     *)
(***************************************************************************)
\* manager j has made the only mutation so far, an add that returned, of a record
\* under a path its list did not hold; manager i holds the list j had loaded, which
\* is not what a load would give since j wrote: both loaded before either wrote
BothLoadedOneWrote(i, j) ==
    /\ i # j
    /\ nops = 1
    /\ lastMut.op = "add"
    /\ lastMut.inst = j
    /\ lastMut.exc = "none"
    /\ lastMut.app.install_path \notin PathsOf(lastMut.before)
    /\ mgr[i].state = "ready"
    /\ mgr[i].apps = lastMut.before
    /\ mgr[j].apps = RecordsInFile.apps

\* the step is an add by manager i, which returned, of a record under another path
\* than the one the other manager added
AddsOtherPath(i) ==
    /\ nops' = nops + 1
    /\ lastMut'.op = "add"
    /\ lastMut'.inst = i
    /\ lastMut'.exc = "none"
    /\ lastMut'.app.install_path # lastMut.app.install_path

\* C24: two managers that both loaded the registry file before either wrote are not
\* coordinated: when each has added a record under a different install_path, the
\* file is the snapshot of the manager that wrote last, and the record the other
\* one added is in that manager's memory but not in the file.
C24_LastWriterWinsUpdateLost ==
    [][\A i, j \in Instances :
          (BothLoadedOneWrote(i, j) /\ AddsOtherPath(i)) =>
              /\ registry_file' = FileWith(RegistryText(mgr'[i].apps))
              /\ lastMut'.before = lastMut.before
              /\ lastMut.app.install_path \notin PathsOf(_load_registry(registry_file').apps)
              /\ lastMut.app \in {mgr'[j].apps[n] : n \in 1..Len(mgr'[j].apps)}
              /\ lastMut'.app \in {_load_registry(registry_file').apps[n] :
                                      n \in 1..Len(_load_registry(registry_file').apps)}]_vars

\* after two mutations, the last one an add by one manager over a list with a
\* record: the other manager holds a record under a path that no seed ledger has
\* and that the file and the writer's loaded list do not have
C24_Witness ==
    \E i, j \in Instances :
        /\ i # j
        /\ nops = 2
        /\ lastMut.op = "add"
        /\ lastMut.inst = i
        /\ lastMut.exc = "none"
        /\ lastMut.before # <<>>
        /\ mgr[j].state = "ready"
        /\ registry_file = FileWith(RegistryText(mgr[i].apps))
        /\ \E n \in 1..Len(mgr[j].apps) :
              /\ mgr[j].apps[n].install_path = PyStr(<<"/", "a", "/", "y">>)
              /\ mgr[j].apps[n].install_path # lastMut.app.install_path
              /\ mgr[j].apps[n].install_path \notin PathsOf(lastMut.before)
              /\ mgr[j].apps[n].install_path \notin PathsOf(RecordsInFile.apps)

\* no behaviour takes the step C24 is about; this does not hold, the race is reachable
C24_RaceNeverHappens ==
    [][\A i, j \in Instances : ~(BothLoadedOneWrote(i, j) /\ AddsOtherPath(i))]_vars

(***************************************************************************)
(* The callers of parse: the window (src/src/appimg/ui/window.py) and the  *)
(* debug command (src/src/appimg/main.py) (specification SpecWindow).      *)
(***************************************************************************)
\* the temporary directory number id, as a Path
TempDir(id) == [t |-> "Path", place |-> "tempdir", id |-> id]

\* tempfile.mkdtemp, appimage.py line 45: a directory that did not exist before
mkdtemp(dirs) == [made |-> dirs.made + 1, exist |-> dirs.exist \cup {dirs.made + 1}]

cleanupKeepsDir(info, dirs) == dirs

\* AppImageInfo.cleanup, appimage.py lines 26-29: the temporary directories after it
cleanup(info, dirs) ==
    IF info.temp_extract_dir # PyNone /\ info.temp_extract_dir.id \in dirs.exist
    THEN [dirs EXCEPT !.exist = @ \ {info.temp_extract_dir.id}]
    ELSE dirs

\* Path(file_path).suffix
PathSuffix(path) ==
    LET name == PathName(path)
        i == LastIndexOf(name, ".")
    IN  IF 1 < i /\ i < Len(name) THEN SubSeq(name, i, Len(name)) ELSE <<>>

\* ".AppImage", which the model writes ".A" as it does in the bundle paths
AppImageSuffix == <<".", "A">>

\* the test of load_appimage, window.py line 379, negated
IsAppImageName(path) ==
    \/ Lower(PathSuffix(path)) = Lower(AppImageSuffix)
    \/ /\ Len(PathName(path)) >= Len(AppImageSuffix)
       /\ SubSeq(PathName(path), Len(PathName(path)) - Len(AppImageSuffix) + 1,
                 Len(PathName(path))) = AppImageSuffix

load_appimageReleasesOld(win, dirs, bundle) ==
    IF ~IsAppImageName(bundle.appimage_path) \/ ~bundle.exists
    THEN [window |-> win, tmp |-> dirs, shown |-> "error"]
    ELSE LET out == parse(bundle)
             released == IF win.current_info = PyNone THEN dirs
                         ELSE cleanup(win.current_info, dirs)
             after == IF out.temp_dir THEN mkdtemp(released) ELSE released
         IN  IF out.exc # "none"
             THEN [window |-> win, tmp |-> mkdtemp(dirs), shown |-> "error"]
             ELSE [window |-> [current_appimage |-> PyStr(bundle.appimage_path),
                               current_info |->
                                   [out.info EXCEPT !.temp_extract_dir = TempDir(after.made)]],
                   tmp |-> after,
                   shown |-> "loaded"]

\* load_appimage(file_path), window.py lines 374-404, on the bundle at file_path:
\* the window's fields and the temporary directories afterwards, and what is shown
load_appimage(win, dirs, bundle) ==
    IF ~IsAppImageName(bundle.appimage_path)
    THEN [window |-> win, tmp |-> dirs, shown |-> "Not an AppImage file"]
    ELSE IF ~bundle.exists
    THEN [window |-> win, tmp |-> dirs, shown |-> "Failed to parse AppImage"]
    ELSE LET out == parse(bundle)
             after == IF out.temp_dir THEN mkdtemp(dirs) ELSE dirs
         IN  IF out.exc # "none"
             THEN [window |-> win, tmp |-> after, shown |-> "Failed to parse AppImage"]
             ELSE [window |-> [current_appimage |-> PyStr(bundle.appimage_path),
                               current_info |->
                                   [out.info EXCEPT !.temp_extract_dir = TempDir(after.made)]],
                   tmp |-> after,
                   shown |-> "loaded"]

\* what the copy of the icon does when install reads info.icon_path: the file is
\* below the extraction directory, and is not there once that was removed
IconRead(info, dirs, env) ==
    IF info.icon_path # PyNone /\ info.temp_extract_dir.id \notin dirs.exist
    THEN [env EXCEPT !.icon = "FileNotFoundError"]
    ELSE env

debug_mainAlwaysCleans(dirs, bundle) ==
    [exit |-> IF bundle.exists /\ parse(bundle).exc = "none" THEN 0 ELSE 1,
     tmp |-> [made |-> IF bundle.exists THEN dirs.made + 1 ELSE dirs.made,
              exist |-> dirs.exist],
     dir |-> IF bundle.exists THEN dirs.made + 1 ELSE 0]

\* debug_main, main.py lines 43-74, on the bundle at args.appimage: the exit code,
\* the temporary directories afterwards, and the directory this run made (0: none)
debug_main(dirs, bundle) ==
    IF ~bundle.exists THEN [exit |-> 1, tmp |-> dirs, dir |-> 0]
    ELSE LET out == parse(bundle)
             after == IF out.temp_dir THEN mkdtemp(dirs) ELSE dirs
         IN  IF out.exc # "none" THEN [exit |-> 1, tmp |-> after, dir |-> after.made]
             ELSE [exit |-> 0,
                   tmp |-> cleanup([out.info EXCEPT !.temp_extract_dir = TempDir(after.made)],
                                   after),
                   dir |-> after.made]

_install_appimageNoCleanup(win, dirs, file, disk, env, clock) ==
    IF win.current_appimage = PyNone \/ win.current_info = PyNone
    THEN [ran |-> FALSE, tmp |-> dirs]
    ELSE LET r == _load_registry(file)
             info == win.current_info
             call == install(r.apps, file, disk, win.current_appimage.s, info,
                             IconRead(info, dirs, env), clock)
         IN  [ran |-> TRUE, loaded |-> r.apps, exc |-> call.exc, at |-> call.at,
              ret |-> call.ret, probes |-> call.probes, fs |-> call.fs,
              apps |-> call.apps, file |-> call.file, tmp |-> dirs]

\* _install_appimage, window.py lines 430-454: whether it went past the test of
\* line 432 and, if so, what the new installer loaded, how its install() call went
\* and the temporary directories left by the finally clause
_install_appimage(win, dirs, file, disk, env, clock) ==
    IF win.current_appimage = PyNone \/ win.current_info = PyNone
    THEN [ran |-> FALSE, tmp |-> dirs]
    ELSE LET info == win.current_info
             \* AppImageInstaller(debug) of line 436 raised: nothing was installed
             unbuilt(r) ==
                 [ran |-> TRUE, loaded |-> r.apps, exc |-> r.exc,
                  at |-> "AppImageInstaller", ret |-> PyNone, probes |-> 0, fs |-> disk,
                  apps |-> r.apps, file |-> file, tmp |-> cleanup(info, dirs)]
             \* installer.install(current_appimage, current_info) of line 437
             installed(loaded, call) ==
                 [ran |-> TRUE, loaded |-> loaded, exc |-> call.exc, at |-> call.at,
                  ret |-> call.ret, probes |-> call.probes, fs |-> call.fs,
                  apps |-> call.apps, file |-> call.file, tmp |-> cleanup(info, dirs)]
             built(r) ==
                 IF r.exc # "none" THEN unbuilt(r)
                 ELSE installed(r.apps,
                                install(r.apps, file, disk, win.current_appimage.s, info,
                                        IconRead(info, dirs, env), clock))
         IN  built(_load_registry(file))

\* the number of temporary directories made in one run
MaxLoads == 2

\* the paths of the files dropped on the window or given to the debug command, the
\* last of which is no AppImage by its name
WindowPaths == AppImagePaths \cup {<<"/", "x", ".", "B">>}

\* extracted trees: a descriptor and its icon, a descriptor without icon file,
\* no descriptor at all
WindowTrees ==
    {Tree(<<FullEntry>>, <<>>, [k \in {<<"c">>} |-> {"root.png"}]),
     Tree(<<FullEntry>>, <<>>, [k \in {<<"c">>} |-> {}]),
     Tree(<<>>, <<>>, [k \in {<<"c">>} |-> {"root.png"}])}

\* the files behind those paths: bundles whose extraction succeeds or fails, a
\* path with no file, a file that is no AppImage
WindowBundles ==
    {Bundle(p, TRUE, TRUE, "ok", r, t) :
        p \in AppImagePaths, r \in {"exit 0", "exit 1"}, t \in WindowTrees}
        \cup {Bundle(<<"/", "x", ".", "A">>, FALSE, FALSE, "ok", "exit 0",
                     Tree(<<>>, <<>>, [k \in {<<"c">>} |-> {}])),
              Bundle(<<"/", "x", ".", "B">>, TRUE, TRUE, "ok", "exit 0",
                     Tree(<<FullEntry>>, <<>>, [k \in {<<"c">>} |-> {"root.png"}]))}

\* the environments of the installs started from the window
WindowEnvs ==
    {CalmEnv, Env("OSError", "ok", QuietProbe, "ok", "ok", "ok"),
     Env("ok", "ok", QuietProbe, "ok", "PermissionError", "ok")}

InitWindow ==
    /\ registry_file \in {NoFile, FileWith(RegistryText(<<SeedInstalled>>))}
    /\ LedgerInit
    /\ OtherInit

\* a file is dropped on the window, or given on the command line (main.py line 35):
\* load_appimage(file_path)
LoadAppimage(bundle) ==
    /\ tmp.made < MaxLoads
    /\ LET r == load_appimage(window, tmp, bundle) IN
       /\ window' = r.window
       /\ tmp' = r.tmp
       /\ last' = [op |-> "load_appimage", bundle |-> bundle, shown |-> r.shown,
                   before |-> window, dirs |-> tmp]
    /\ UNCHANGED <<registry_file, mgr, lastMut, nops, parsed, fs, inst, now, ninstalls,
                   handler>>

\* the file at file_path is dropped on the Applications target: _on_target_drop,
\* window.py lines 351-372, with the _install_appimage call it makes
OnTargetDrop(file_path, env) ==
    /\ ninstalls < MaxInstalls
    /\ LET call(r) == [op |-> "_install_appimage", inst |-> 1,
                       appimage_path |-> file_path, info |-> window.current_info,
                       env |-> env, before |-> r.loaded, exc |-> r.exc, at |-> r.at,
                       ret |-> r.ret, probes |-> r.probes, dirs |-> tmp]
           step(r) ==
               IF window.current_appimage # PyStr(file_path) \/ ~r.ran
               THEN /\ last' = [op |-> "_on_target_drop", file_path |-> file_path]
                    /\ UNCHANGED <<registry_file, mgr, fs, inst, now, ninstalls, tmp>>
               ELSE /\ mgr' = [mgr EXCEPT ![1] = [state |-> "ready", apps |-> r.apps,
                                                  exc |-> "none"]]
                    /\ registry_file' = r.file
                    /\ fs' = r.fs
                    /\ inst' = [inst EXCEPT ![1] = [pc |-> IF r.exc = "none"
                                                           THEN "returned" ELSE "raised",
                                                    call |-> call(r)]]
                    /\ tmp' = r.tmp
                    /\ last' = call(r)
                    /\ now' = now + 1
                    /\ ninstalls' = ninstalls + 1
       IN  step(_install_appimage(window, tmp, registry_file, fs, env, now + 1))
    /\ UNCHANGED <<lastMut, nops, parsed, window, handler>>

\* appimg-debug --appimage PATH: debug_main, main.py lines 43-74
DebugMain(bundle) ==
    /\ tmp.made < MaxLoads
    /\ LET r == debug_main(tmp, bundle) IN
       /\ tmp' = r.tmp
       /\ last' = [op |-> "debug_main", bundle |-> bundle, exit |-> r.exit,
                   dir |-> r.dir, dirs |-> tmp]
    /\ UNCHANGED <<registry_file, mgr, lastMut, nops, parsed, fs, inst, now, ninstalls,
                   window, handler>>

NextWindow ==
    \/ \E b \in WindowBundles : LoadAppimage(b)
    \/ \E p \in WindowPaths, env \in WindowEnvs : OnTargetDrop(p, env)
    \/ \E b \in WindowBundles : DebugMain(b)

SpecWindow == InitWindow /\ [][NextWindow]_vars

(***************************************************************************)
(* Claims about the temporary directories (specification SpecWindow).      *)
(***************************************************************************)
\* a caller of parse has finished its work on a bundle: the window's install
\* action has run its finally clause, or the debug command has exited
CallerFinished == last.op \in {"_install_appimage", "debug_main"}

\* the directory made by the parse of the run of the debug command that just ended
DebugDir == IF last.op = "debug_main" THEN last.dir ELSE 0

\* C26: every temporary directory made by a parse has been released by the caller
\* once its installation or inspection has finished, on the success path and on
\* every failure path, in the window's install action and in the debug command.
C26_TempDirsReleasedWhenCallerDone ==
    CallerFinished => tmp.exist = {}

\* what the callers do: the debug command removes its directory exactly when parse
\* returned; the window's install action removes the directory of the descriptor it
\* installed, whether install returned or raised; a load whose parse raised leaves
\* the directory of that parse behind
C26_ReleasedOnlyAfterParseReturned ==
    /\ (last.op = "debug_main" /\ last.dir # 0) =>
          /\ last.dir \in tmp.exist <=> last.exit = 1
          /\ last.exit = 1 <=> parse(last.bundle).exc # "none"
    /\ last.op = "_install_appimage" =>
          last.info.temp_extract_dir.id \notin tmp.exist
    /\ (last.op = "load_appimage" /\ tmp.made > last.dirs.made
            /\ last.shown = "Failed to parse AppImage") =>
          tmp.made \in tmp.exist

\* the debug command exited with 1 after a failed extraction, its directory is there
C26_ReachedDebugLeak ==
    /\ last.op = "debug_main"
    /\ last.exit = 1
    /\ last.bundle.extract = "exit 1"
    /\ last.dir \in tmp.exist

\* the debug command exited with 0 and left nothing
C26_ReachedDebugClean ==
    /\ last.op = "debug_main"
    /\ last.exit = 0
    /\ last.dir # 0
    /\ tmp.exist = {}

\* the window's install action raised, and the directory of its descriptor is gone
\* while that of an earlier parse that raised is still there
C26_ReachedWindowLeak ==
    /\ last.op = "_install_appimage"
    /\ last.exc # "none"
    /\ last.info.temp_extract_dir.id = 2
    /\ tmp.exist = {1}

\* the extraction directory of the descriptor that the install action passed to
\* install(), and whether it had been removed before the call
InstalledDir == last.info.temp_extract_dir.id

ReleasedBeforeInstall == InstalledDir \notin last.dirs.exist

\* C27: in every reachable state of the window, the descriptor passed to an install
\* has not been released before: no install reads the icon file below an extraction
\* directory after cleanup was called on that descriptor.
C27_InstallOnlyUnreleasedDescriptor ==
    last.op = "_install_appimage" => ~ReleasedBeforeInstall

\* what the window does: the descriptor stays in current_info after the cleanup of
\* the first install action, so a second drop of the same file installs it again;
\* the copy of the icon then fails after the bundle was copied, and a descriptor
\* without icon installs as before
C27_SecondDropInstallsReleased ==
    (last.op = "_install_appimage" /\ ReleasedBeforeInstall) =>
        /\ window.current_info = last.info
        /\ ninstalls >= 2
        /\ (last.env.copy = "ok" /\ last.info.icon_path # PyNone) =>
              /\ last.exc = "FileNotFoundError"
              /\ last.at = "_install_icon"
              /\ Copied
        /\ (last.env = CalmEnv /\ last.info.icon_path = PyNone) => last.exc = "none"

\* a second drop whose install failed at the icon of a released descriptor
C27_ReachedReleasedIconRead ==
    /\ last.op = "_install_appimage"
    /\ ReleasedBeforeInstall
    /\ last.info.icon_path # PyNone
    /\ last.exc = "FileNotFoundError"
    /\ last.at = "_install_icon"

\* a second drop of a descriptor without icon, which installed
C27_ReachedReleasedNoIcon ==
    /\ last.op = "_install_appimage"
    /\ ReleasedBeforeInstall
    /\ last.info.icon_path = PyNone
    /\ last.exc = "none"

\* the extraction directory of the descriptor the window holds (0: none loaded)
CurrentDir == IF window.current_info = PyNone THEN 0 ELSE window.current_info.temp_extract_dir.id

\* C28: a load that succeeds while a descriptor is loaded whose directory still
\* exists replaces current_info without cleanup: the directory of the first
\* descriptor is there after the load and is not the current one; and no action
\* ever removes a directory other than the current descriptor's, nor makes an
\* earlier directory the current one again: the first directory is never released.
C28_SecondLoadLeaksFirstDir ==
    [][/\ (window' # window /\ CurrentDir \in tmp.exist) =>
              /\ CurrentDir \in tmp'.exist
              /\ CurrentDir' # CurrentDir
       /\ \A d \in tmp.exist : d # CurrentDir => d \in tmp'.exist
       /\ window' # window => CurrentDir' \notin 1..tmp.made]_vars

\* a second AppImage was loaded over a first one that had not been installed
C28_Witness ==
    /\ last.op = "load_appimage"
    /\ last.shown = "loaded"
    /\ last.before.current_info # PyNone
    /\ last.before.current_appimage # window.current_appimage
    /\ last.before.current_info.temp_extract_dir.id \in tmp.exist
    /\ CurrentDir = 2
    /\ tmp.exist = {1, 2}

\* a later state: an install has released the second directory, the first is there
C28_WitnessAfterInstall ==
    /\ last.op = "_install_appimage"
    /\ last.exc = "none"
    /\ CurrentDir = 2
    /\ tmp.made = 2
    /\ tmp.exist = {1}
    /\ ninstalls = 1

(***************************************************************************)
(* Claims about the keys of ledger and launchers (specification            *)
(* SpecInstall).                                                           *)
(***************************************************************************)
\* the install() call that just returned came after a call of the same installer
\* that returned too
TwoInstalls ==
    /\ last.op = "install"
    /\ last.exc = "none"
    /\ last.prior.op = "install"
    /\ last.prior.exc = "none"

\* the two bundles have different file names and their display names sanitize to
\* the same string
SameLauncherOtherBundle ==
    /\ TwoInstalls
    /\ PathName(last.prior.appimage_path) # PathName(last.appimage_path)
    /\ _sanitize_filename(last.prior.info.name.s) = _sanitize_filename(last.info.name.s)

\* one bundle file, installed under display names that sanitize differently
SameBundleOtherLauncher ==
    /\ TwoInstalls
    /\ PathName(last.prior.appimage_path) = PathName(last.appimage_path)
    /\ _sanitize_filename(last.prior.info.name.s) # _sanitize_filename(last.info.name.s)

\* the records of the installer's ledger
LedgerRecords == {mgr[last.inst].apps[i] : i \in 1..Len(mgr[last.inst].apps)}

\* the launcher files at the path that the record names as its desktop_file
LaunchersOf(record) ==
    {f \in fs.applications_dir : record.desktop_file = PyStr(Join(ApplicationsDir, f.name))}

\* C29: ledger and launcher files are keyed differently.  After installs of two
\* bundles of different file names whose display names sanitize to the same string,
\* the ledger holds both records, both name the same desktop_file, and that one
\* file has the content written by the later install.  After installs of one bundle
\* file under display names that sanitize differently, the ledger holds one record
\* for the bundle, the later one, and the launcher file of the earlier name is
\* still on disk with the earlier name in it.
C29_LedgerByPathLauncherByName ==
    /\ SameLauncherOtherBundle =>
          /\ {last.prior.ret, last.ret} \subseteq LedgerRecords
          /\ last.prior.ret.install_path # last.ret.install_path
          /\ last.prior.ret.desktop_file = last.ret.desktop_file
          /\ Cardinality(LaunchersOf(last.ret)) = 1
          /\ \A f \in LaunchersOf(last.ret) :
                /\ f.content.lines[2] = Line("Name=", last.info.name.s)
                /\ ShellWords(f.content.lines[3][2])[1] = last.ret.install_path.s
    /\ SameBundleOtherLauncher =>
          /\ last.ret \in LedgerRecords
          /\ last.prior.ret \notin LedgerRecords
          /\ Cardinality({r \in LedgerRecords : r.install_path = last.ret.install_path}) = 1
          /\ last.prior.ret.desktop_file # last.ret.desktop_file
          /\ Cardinality(LaunchersOf(last.prior.ret)) = 1
          /\ \A f \in LaunchersOf(last.prior.ret) :
                f.content.lines[2] = Line("Name=", last.prior.info.name.s)
          /\ Cardinality(LaunchersOf(last.ret)) = 1

\* two bundles installed under the names "A" and "A:", which both give A.desktop
C29_Witness ==
    /\ SameLauncherOtherBundle
    /\ last.prior.info.name # last.info.name
    /\ Cardinality({r \in LedgerRecords : r.desktop_file = last.ret.desktop_file}) >= 2
    /\ Cardinality(fs.applications_dir) = 1

\* one bundle installed as "A" and then under the empty name: one record for it,
\* two launcher files
C29_WitnessOrphan ==
    /\ SameBundleOtherLauncher
    /\ last.prior.info.name.s = <<"A">>
    /\ last.info.name.s = <<>>
    /\ Cardinality(fs.applications_dir) = 2
    /\ Cardinality(fs.apps_dir) = 1

(***************************************************************************)
(* The desktop integration of appimg itself: src/scripts/install-desktop.py *)
(* and src/scripts/uninstall-desktop.py (specification SpecHandler).        *)
(***************************************************************************)
\* desktop entries, by a one-letter name: appimg.desktop, the entry of Gear Lever
\* (uninstall-desktop.py line 47), the entry of some other application
AppimgDesktop == <<"a">>
GearLeverDesktop == <<"g">>
OtherDesktop == <<"o">>

\* how a run of xdg-mime goes
XdgOutcomes == {"ok", "CalledProcessError", "FileNotFoundError"}

\* the standard output of "xdg-mime query default": the entry and a line end
\* (whitespace, written as a blank), or nothing
QueryOutput(h) == IF h.default = PyNone THEN <<>> ELSE h.default.s \o <<" ">>

\* get_current_default, install-desktop.py lines 73-85
get_current_default(h, query) ==
    IF query = "FileNotFoundError" THEN PyNone
    ELSE LET default == IF query = "ok" THEN Strip(QueryOutput(h)) ELSE <<>> IN
         IF default # <<>> THEN PyStr(default) ELSE PyNone

\* save_backup, install-desktop.py lines 88-92
save_backup(h, default_handler) == [h EXCEPT !.backup = default_handler]

install_desktopKeepsFirstBackup(h, query, set) ==
    LET current_default == get_current_default(h, query)
        backed == IF current_default # PyNone /\ h.backup = PyNone
                  THEN save_backup(h, current_default) ELSE h
        written == [backed EXCEPT !.entry = TRUE]
    IN  IF set # "ok" THEN [handler |-> written, exc |-> set]
        ELSE [handler |-> [written EXCEPT !.default = PyStr(AppimgDesktop)], exc |-> "none"]

\* main of install-desktop.py, lines 9-70: the integration afterwards and the
\* exception that ends the script; query and set are how the two xdg-mime runs go
install_desktop(h, query, set) ==
    LET current_default == get_current_default(h, query)
        backed == IF current_default # PyNone THEN save_backup(h, current_default) ELSE h
        written == [backed EXCEPT !.entry = TRUE]
    IN  IF set # "ok" THEN [handler |-> written, exc |-> set]
        ELSE [handler |-> [written EXCEPT !.default = PyStr(AppimgDesktop)], exc |-> "none"]

\* main of uninstall-desktop.py, lines 8-62
uninstall_desktop(h, set) ==
    LET removed == [h EXCEPT !.entry = FALSE]
        previous_handler == IF h.backup = PyNone THEN <<>> ELSE Strip(h.backup.s)
        target == IF h.backup # PyNone THEN previous_handler ELSE GearLeverDesktop
        restored == IF set = "ok" THEN [removed EXCEPT !.default = PyStr(target)]
                    ELSE removed
    IN  IF h.backup # PyNone /\ previous_handler = <<>>
        THEN [handler |-> [removed EXCEPT !.backup = PyNone], exc |-> "none"]
        ELSE IF set = "FileNotFoundError"
        THEN [handler |-> removed, exc |-> "FileNotFoundError"]
        ELSE [handler |-> [restored EXCEPT !.backup = PyNone], exc |-> "none"]

\* the default handler of AppImage files before appimg is ever integrated
FirstDefaults == {PyNone, PyStr(GearLeverDesktop), PyStr(OtherDesktop)}

InitHandler ==
    /\ registry_file = NoFile
    /\ LedgerInit
    /\ parsed = IdleParse
    /\ fs = EmptyFs
    /\ inst = [k \in Instances |-> NoInstaller]
    /\ now = 0
    /\ ninstalls = 0
    /\ window = NoWindow
    /\ tmp = NoTempDirs
    /\ handler \in {NoIntegration(d) : d \in FirstDefaults}

\* what a later run keeps of the run before it
Earlier(call) ==
    IF call.op \in {"install-desktop", "uninstall-desktop"}
    THEN [op |-> call.op, before |-> call.before, exc |-> call.exc, ok |-> call.ok]
    ELSE NoCall

\* a run of scripts/install-desktop.py
InstallDesktop(query, set) ==
    /\ LET r == install_desktop(handler, query, set) IN
       /\ handler' = r.handler
       /\ last' = [op |-> "install-desktop", before |-> handler, exc |-> r.exc,
                   ok |-> query = "ok" /\ set = "ok", prior |-> Earlier(last)]
    /\ UNCHANGED <<registry_file, mgr, lastMut, nops, parsed, fs, inst, now, ninstalls,
                   window, tmp>>

\* a run of scripts/uninstall-desktop.py
UninstallDesktop(set) ==
    /\ LET r == uninstall_desktop(handler, set) IN
       /\ handler' = r.handler
       /\ last' = [op |-> "uninstall-desktop", before |-> handler, exc |-> r.exc,
                   ok |-> set = "ok", prior |-> Earlier(last)]
    /\ UNCHANGED <<registry_file, mgr, lastMut, nops, parsed, fs, inst, now, ninstalls,
                   window, tmp>>

NextHandler ==
    \/ \E query \in XdgOutcomes, set \in XdgOutcomes : InstallDesktop(query, set)
    \/ \E set \in XdgOutcomes : UninstallDesktop(set)

SpecHandler == InitHandler /\ [][NextHandler]_vars

(***************************************************************************)
(* Claims about the default-handler backup (specification SpecHandler).    *)
(***************************************************************************)
\* the uninstall script has run after a run of the install script, every xdg-mime
\* run of both having succeeded
InstalledThenUninstalled ==
    /\ last.op = "uninstall-desktop"
    /\ last.ok
    /\ last.prior.op = "install-desktop"
    /\ last.prior.ok

\* that install run was the only one: appimg was not the default handler before it
OneInstallRun == InstalledThenUninstalled /\ last.prior.before.default # PyStr(AppimgDesktop)

\* that install run came after another one: appimg was the default handler already
SecondInstallRun == InstalledThenUninstalled /\ last.prior.before.default = PyStr(AppimgDesktop)

\* after two install runs the backup names appimg.desktop, and the uninstall script
\* makes the entry it has removed the default handler
RestoresRemovedEntry ==
    SecondInstallRun =>
        /\ last.before.backup = PyStr(AppimgDesktop)
        /\ handler.default = PyStr(AppimgDesktop)
        /\ ~handler.entry
        /\ handler.backup = PyNone

\* C30 (as claimed): every run of the install script overwrites the backup with the
\* handler that is default at that moment; one install run followed by the
\* uninstall script restores the handler that was default before the install and
\* deletes the backup file; after two install runs in a row the backup holds
\* appimg.desktop, which the uninstall script then makes the default handler
\* although it has just removed that entry.
C30_BackupOverwrittenRestoreUndoesOneRun ==
    /\ (last.op = "install-desktop" /\ last.ok) =>
          handler.backup = last.before.default
    /\ OneInstallRun =>
          /\ handler.default = last.prior.before.default
          /\ handler.backup = PyNone
          /\ ~handler.entry
    /\ RestoresRemovedEntry

\* C30 (amended): the same when some handler is default as the install script
\* runs.  When none is, the install script writes no backup (a backup file that is
\* there stays as it is), and the uninstall script, finding no backup file, makes
\* the Gear Lever entry the default handler.
C30_BackupOverwrittenWhenDefaultExists ==
    /\ (last.op = "install-desktop" /\ last.ok) =>
          handler.backup = IF last.before.default # PyNone THEN last.before.default
                           ELSE last.before.backup
    /\ OneInstallRun =>
          /\ handler.default = IF last.prior.before.default # PyNone
                               THEN last.prior.before.default
                               ELSE PyStr(GearLeverDesktop)
          /\ handler.backup = PyNone
          /\ ~handler.entry
    /\ RestoresRemovedEntry

\* two install runs and the uninstall script: the first install run had saved
\* another handler, the second one replaced it by appimg.desktop
C30_Witness ==
    /\ SecondInstallRun
    /\ last.prior.before.entry
    /\ last.prior.before.backup = PyStr(OtherDesktop)
    /\ handler = [default |-> PyStr(AppimgDesktop), backup |-> PyNone, entry |-> FALSE]

\* one install run and the uninstall script, over another application's handler
C30_WitnessRestored ==
    /\ OneInstallRun
    /\ last.prior.before = NoIntegration(PyStr(OtherDesktop))
    /\ handler = NoIntegration(PyStr(OtherDesktop))

\* the same where no handler was default: Gear Lever's entry is the default now
C30_WitnessNoDefault ==
    /\ OneInstallRun
    /\ last.prior.before = NoIntegration(PyNone)
    /\ handler = NoIntegration(PyStr(GearLeverDesktop))

====
